---- MODULE Spec2Model ----
(***************************************************************************)
(* State-machine model of the LogicAnalyzer class                          *)
(* (src/include/logic_analyzer.h, src/src/logic_analyzer.cpp) as driven by *)
(* setup()/loop() and the web handlers of src/src/main.cpp.                *)
(*                                                                         *)
(* Every C++ method is an operator from an analyzer record to an analyzer  *)
(* record, so that a method calling another method is the composition of   *)
(* the two operators.  The record fields are the members of the class;     *)
(* each one is a variable of the module.  A Sample is [timestamp, data].   *)
(* micros(), the pin level, the result of mounting LittleFS, of malloc and *)
(* of opening the backing file are inputs of the actions.                  *)
(***************************************************************************)
EXTENDS Integers, Sequences, FiniteSets, TLC

\* ----- sizes ------------------------------------------------------------
\* The ring capacity, 16384 in the source (logic_analyzer.h:17), scaled.
BUFFER_SIZE == 3
\* FLASH_BUFFER_SIZE, 1000000 in the source (logic_analyzer.h:19), scaled.
FLASH_BUFFER_SIZE == 2
\* MAX_FLASH_BUFFER_SIZE, 2000000 in the source (logic_analyzer.h:20), scaled.
MAX_FLASH_BUFFER_SIZE == 4
\* FLASH_CHUNK_SIZE, 4096 in the source (logic_analyzer.h:21), scaled.
FLASH_CHUNK_SIZE == 24
\* MAX_LOG_ENTRIES, 100 in the source (logic_analyzer.h:109), scaled.
MAX_LOG_ENTRIES == 1
\* Capacity of compressedBuffer, 1000 in the source (logic_analyzer.cpp:1510).
COMPRESSED_CAPACITY == 2
\* Streaming drains compressedBuffer at 500 records (logic_analyzer.cpp:1678).
COMPRESSED_DRAIN == 1
\* Streaming flushes every 1000 samples (logic_analyzer.cpp:1690), scaled.
STREAM_FLUSH_EVERY == 2
\* Largest run length, 65535 in the source (logic_analyzer.cpp:1611), scaled.
RUN_MAX == 2
\* sizeof(Sample): uint32_t + bool, padded (logic_analyzer.h:35-38).
SIZEOF_SAMPLE == 8
\* Timestamps are uint32_t and wrap at 2^32; the model's clock wraps here.
U32 == 16
\* Largest value the sample and byte counters are followed to.
MaxCount == 4
\* Number of samples of a session the trigger history keeps.
MaxFed == 3
\* UART_MSG_MAX_LENGTH, 1000 in the source (logic_analyzer.h:111), scaled.
UART_MSG_MAX_LENGTH == 3
\* MAX_UART_ENTRIES, 1000000 in the source (logic_analyzer.h:110), scaled.
MAX_UART_ENTRIES == 5
\* Time a half-duplex transmission holds the line, 100 ms in the source
\* (logic_analyzer.cpp:1065), in ticks of the model's millis().
HALF_DUPLEX_TX_TIMEOUT == 1
\* Receive gap that closes a partial line, 1000 ms in the source
\* (logic_analyzer.cpp:1097), in ticks of the model's millis().
UART_RX_TIMEOUT == 2
\* Largest value millis() is followed to, most bytes waiting in the UART
\* receiver, most entries of the UART log file, most characters of the RX
\* line buffer.
MaxMillis == 4
MaxFifo == 2
MaxUartLog == 2
MaxLine == 6
\* UART log entries followed per run of the log-order history
MaxStored == 3
\* characters of a UART log entry followed through reloads from the log file
MaxEntryLength == 2

\* Limits of configureLogic and setSampleRate, at their values in the source.
MIN_SAMPLE_RATE == 10
MAX_SAMPLE_RATE == 40000000
DEFAULT_SAMPLE_RATE == 1000000
MIN_BUFFER_SIZE == 1024
MAX_BUFFER_SIZE == 262144
MAX_PRE_TRIGGER == 90
\* BUFFER_SIZE and FLASH_BUFFER_SIZE as numbers kept in logicConfig.bufferSize,
\* which sizes no buffer: their values in the source.
CONFIG_BUFFER_SIZE == 16384
CONFIG_FLASH_BUFFER_SIZE == 1000000
MAX_GPIO == 48
FLASH_MAGIC == 1280264009
FLASH_VERSION == 1

TriggerModes == {"TRIGGER_NONE", "TRIGGER_RISING_EDGE", "TRIGGER_FALLING_EDGE",
                 "TRIGGER_BOTH_EDGES", "TRIGGER_HIGH_LEVEL", "TRIGGER_LOW_LEVEL"}
BufferModes == {"BUFFER_RAM", "BUFFER_FLASH", "BUFFER_STREAMING", "BUFFER_COMPRESSED"}
CompressionTypes == {"COMPRESS_NONE", "COMPRESS_RLE", "COMPRESS_DELTA", "COMPRESS_HYBRID"}
\* GPIO numbers used as inputs: CHANNEL_0_PIN of the AtomS3 build and the
\* default UART RX pin.
CHANNEL_0_PIN == 1
DEFAULT_RX_PIN == 7
Pins == {CHANNEL_0_PIN, DEFAULT_RX_PIN}
\* Outcomes of LittleFS.begin(), the two malloc calls and LittleFS.open().
\* append: the outcome of opening the UART log file to append to it.
Envs == [mount : BOOLEAN, mallocW : BOOLEAN, mallocC : BOOLEAN, open : BOOLEAN,
         append : BOOLEAN]
\* Everything succeeds.
OkEnv == [mount |-> TRUE, mallocW |-> TRUE, mallocC |-> TRUE, open |-> TRUE,
          append |-> TRUE]
\* Only the mount may fail; only the open may fail; only the open of the
\* UART log file may fail.
MountEnvs == {e \in Envs : e.mallocW /\ e.mallocC /\ e.open /\ e.append}
OpenEnvs == {e \in Envs : e.mount /\ e.mallocW /\ e.mallocC /\ e.append}
AppendEnvs == {e \in Envs : e.mount /\ e.mallocW /\ e.mallocC /\ e.open}
\* UartDuplexMode
DuplexModes == {"UART_FULL_DUPLEX", "UART_HALF_DUPLEX"}
\* Bytes on the UART line: two printable characters, the two line
\* terminators and the non-printable byte 0x01.
Printable == {"A", "B"}
Terminators == {"CR", "LF"}
Bytes == Printable \cup Terminators \cup {"SOH"}

VARIABLES
    \* position of the firmware: "constructed" before setup(), then "running"
    pc,
    \* RAM ring
    writeIndex, readIndex, buffer, capturing,
    \* trigger
    triggerMode, lastState, triggerArmed,
    \* logicConfig / uartConfig fields
    bufferMode, maxFlashSamples, compression, gpioPin, rxPin,
    configSampleRate, bufferSize, preTriggerPercent,
    \* sampleRate and sampleInterval of the analyzer
    sampleRate, sampleInterval,
    \* flashHeader ("unset" or its magic and version) and what the first bytes
    \* of the backing file are ("none" while it is empty)
    flashHeader, flashFileFirst,
    \* flash-backed buffer
    flashSamplesWritten, flashWritePosition, bufferPosition, flashWriteBuffer,
    flashDataFile, flashFileExists, flashFileSize, flashStorageActive,
    \* compression
    compressedBuffer, compressed, lastTimestamp, lastData, runLength,
    \* streaming
    streamingActive, streamingCount,
    \* dual mode and UART monitoring flags
    dualModeActive, uartMonitoringEnabled,
    \* serial log and the Preferences pointer (set or null)
    serialLogBuffer, preferences,
    \* UART monitor: uartConfig.duplexMode, whether uartSerial is set, the
    \* RX line buffer (a sequence of characters) and lastUartActivity
    duplexMode, uartSerial, uartRxBuffer, lastUartActivity,
    \* half-duplex engine
    halfDuplexTxMode, halfDuplexBusy, halfDuplexTxQueue, halfDuplexTxTimeout,
    \* UART log: the entries in memory, the capacity, the storage flag, and
    \* the file uartLogFileName names
    uartLogBuffer, maxUartEntries, useFlashStorage, uartLogFile, uartLogFileExists,
    \* peripherals: the value of millis() and the bytes waiting in Serial2
    millis, uartFifo,
    \* history: what the last operation did, the samples fed to the trigger
    \* in the current session, the samples recorded since the last clear
    last, sess, nRec

vars == <<pc, writeIndex, readIndex, buffer, capturing, triggerMode, lastState,
          triggerArmed, bufferMode, maxFlashSamples, compression, gpioPin, rxPin,
          flashSamplesWritten, flashWritePosition, bufferPosition,
          flashWriteBuffer, flashDataFile, flashFileExists, flashFileSize,
          flashStorageActive, compressedBuffer, compressed, lastTimestamp,
          lastData, runLength, streamingActive, streamingCount, dualModeActive,
          uartMonitoringEnabled, serialLogBuffer, preferences, configSampleRate,
          bufferSize, preTriggerPercent, sampleRate, sampleInterval, flashHeader,
          flashFileFirst, duplexMode, uartSerial, uartRxBuffer, lastUartActivity,
          halfDuplexTxMode, halfDuplexBusy, halfDuplexTxQueue, halfDuplexTxTimeout,
          uartLogBuffer, maxUartEntries, useFlashStorage, uartLogFile,
          uartLogFileExists, millis, uartFifo, last, sess, nRec>>

\* The calls an operation has made so far.
\* read: levels read from the pin; eval: checkTrigger calls; add: values given
\* to addSample; smp: samples addSample built; stage: staging positions
\* writeToFlash copied to; args: arguments of configureLogic; log: messages;
\* rx: bytes read from Serial2; uart: entries given to addUartEntry; tx:
\* strings printed to Serial2; ret: the result of a call that returns one.
NoTrace == [read |-> <<>>, eval |-> <<>>, add |-> <<>>, log |-> <<>>, clr |-> FALSE,
            smp |-> <<>>, stage |-> <<>>, args |-> <<>>,
            rx |-> <<>>, uart |-> <<>>, tx |-> <<>>, ret |-> "none"]

\* The analyzer object in the current state.
Cur ==
    [writeIndex |-> writeIndex, readIndex |-> readIndex, buffer |-> buffer,
     capturing |-> capturing, triggerMode |-> triggerMode, lastState |-> lastState,
     triggerArmed |-> triggerArmed, bufferMode |-> bufferMode,
     maxFlashSamples |-> maxFlashSamples, compression |-> compression,
     gpioPin |-> gpioPin, rxPin |-> rxPin,
     flashSamplesWritten |-> flashSamplesWritten,
     flashWritePosition |-> flashWritePosition, bufferPosition |-> bufferPosition,
     flashWriteBuffer |-> flashWriteBuffer, flashDataFile |-> flashDataFile,
     flashFileExists |-> flashFileExists, flashFileSize |-> flashFileSize,
     flashStorageActive |-> flashStorageActive,
     compressedBuffer |-> compressedBuffer, compressed |-> compressed,
     lastTimestamp |-> lastTimestamp, lastData |-> lastData, runLength |-> runLength,
     streamingActive |-> streamingActive, streamingCount |-> streamingCount,
     dualModeActive |-> dualModeActive,
     uartMonitoringEnabled |-> uartMonitoringEnabled,
     serialLogBuffer |-> serialLogBuffer, preferences |-> preferences,
     configSampleRate |-> configSampleRate, bufferSize |-> bufferSize,
     preTriggerPercent |-> preTriggerPercent, sampleRate |-> sampleRate,
     sampleInterval |-> sampleInterval, flashHeader |-> flashHeader,
     flashFileFirst |-> flashFileFirst,
     duplexMode |-> duplexMode, uartSerial |-> uartSerial,
     uartRxBuffer |-> uartRxBuffer, lastUartActivity |-> lastUartActivity,
     halfDuplexTxMode |-> halfDuplexTxMode, halfDuplexBusy |-> halfDuplexBusy,
     halfDuplexTxQueue |-> halfDuplexTxQueue,
     halfDuplexTxTimeout |-> halfDuplexTxTimeout,
     uartLogBuffer |-> uartLogBuffer, maxUartEntries |-> maxUartEntries,
     useFlashStorage |-> useFlashStorage, uartLogFile |-> uartLogFile,
     uartLogFileExists |-> uartLogFileExists,
     millis |-> millis, uartFifo |-> uartFifo,
     tr |-> NoTrace]

\* LogicAnalyzer::LogicAnalyzer and the member initialisers of LogicConfig
\* and UartConfig.  The object is a global, so buffer[] is zero-filled.
\* The device starts at millis() = 0, with no UART log file and nothing
\* received.
Constructed ==
    [writeIndex |-> 0, readIndex |-> 0,
     buffer |-> [i \in 0..(BUFFER_SIZE - 1) |-> [timestamp |-> 0, data |-> FALSE]],
     capturing |-> FALSE, triggerMode |-> "TRIGGER_NONE", lastState |-> FALSE,
     triggerArmed |-> FALSE, bufferMode |-> "BUFFER_FLASH",
     maxFlashSamples |-> FLASH_BUFFER_SIZE, compression |-> "COMPRESS_NONE",
     gpioPin |-> CHANNEL_0_PIN, rxPin |-> DEFAULT_RX_PIN,
     flashSamplesWritten |-> 0, flashWritePosition |-> 0, bufferPosition |-> 0,
     flashWriteBuffer |-> FALSE, flashDataFile |-> FALSE,
     flashFileExists |-> FALSE, flashFileSize |-> 0,
     flashStorageActive |-> FALSE,
     compressedBuffer |-> FALSE, compressed |-> <<>>,
     lastTimestamp |-> 0, lastData |-> FALSE, runLength |-> 0,
     streamingActive |-> FALSE, streamingCount |-> 0,
     dualModeActive |-> FALSE, uartMonitoringEnabled |-> FALSE,
     serialLogBuffer |-> <<>>, preferences |-> FALSE,
     configSampleRate |-> DEFAULT_SAMPLE_RATE, bufferSize |-> CONFIG_FLASH_BUFFER_SIZE,
     preTriggerPercent |-> 10, sampleRate |-> DEFAULT_SAMPLE_RATE,
     sampleInterval |-> 1000000 \div DEFAULT_SAMPLE_RATE,
     flashHeader |-> "unset", flashFileFirst |-> "none",
     duplexMode |-> "UART_FULL_DUPLEX", uartSerial |-> FALSE,
     uartRxBuffer |-> <<>>, lastUartActivity |-> 0,
     halfDuplexTxMode |-> FALSE, halfDuplexBusy |-> FALSE,
     halfDuplexTxQueue |-> <<>>, halfDuplexTxTimeout |-> 0,
     uartLogBuffer |-> <<>>, maxUartEntries |-> MAX_UART_ENTRIES,
     useFlashStorage |-> TRUE, uartLogFile |-> <<>>, uartLogFileExists |-> FALSE,
     millis |-> 0, uartFifo |-> <<>>, tr |-> NoTrace]

\* ----- serial log ------------------------------------------------------
\* addLogEntry: push_back, then erase the oldest entry above MAX_LOG_ENTRIES.
\* A message is kept by its text without the millis() prefix and the numbers;
\* the pin conflict message of enableDualMode keeps its pin numbers.
addLogEntry(s, message) ==
    LET pushed == Append(s.serialLogBuffer, message)
        kept == IF Len(pushed) > MAX_LOG_ENTRIES THEN Tail(pushed) ELSE pushed
    IN [s EXCEPT !.serialLogBuffer = kept, !.tr.log = Append(@, message)]

clearLogs(s) == [s EXCEPT !.serialLogBuffer = <<>>]

\* ----- trigger ---------------------------------------------------------
\* checkTrigger with the two edge directions exchanged
checkTrigger_SwapsEdges(mode, last_state, currentState) ==
    CASE mode = "TRIGGER_RISING_EDGE" -> last_state /\ ~currentState
      [] mode = "TRIGGER_FALLING_EDGE" -> (~last_state) /\ currentState
      [] mode = "TRIGGER_BOTH_EDGES" -> last_state # currentState
      [] mode = "TRIGGER_HIGH_LEVEL" -> currentState
      [] mode = "TRIGGER_LOW_LEVEL" -> ~currentState
      [] OTHER -> TRUE

checkTrigger(mode, last_state, currentState) ==
    CASE mode = "TRIGGER_RISING_EDGE" -> (~last_state) /\ currentState
      [] mode = "TRIGGER_FALLING_EDGE" -> last_state /\ ~currentState
      [] mode = "TRIGGER_BOTH_EDGES" -> last_state # currentState
      [] mode = "TRIGGER_HIGH_LEVEL" -> currentState
      [] mode = "TRIGGER_LOW_LEVEL" -> ~currentState
      [] OTHER -> TRUE

\* The call checkTrigger(currentState) on the object, with its result noted.
evalTrigger(s, currentState) ==
    [s EXCEPT !.tr.eval = Append(@, [mode |-> s.triggerMode, last |-> s.lastState,
                                     cur |-> currentState,
                                     res |-> checkTrigger(s.triggerMode, s.lastState,
                                                          currentState)])]

setTrigger(s, mode) == [s EXCEPT !.triggerMode = mode, !.triggerArmed = FALSE]

disableTrigger(s) == [s EXCEPT !.triggerMode = "TRIGGER_NONE", !.triggerArmed = TRUE]

\* ----- buffer queries ----------------------------------------------------
IsFlashBacked(mode) == mode \in {"BUFFER_FLASH", "BUFFER_STREAMING"}

getBufferUsage(s) ==
    IF IsFlashBacked(s.bufferMode) THEN s.flashSamplesWritten
    ELSE IF s.writeIndex >= s.readIndex THEN s.writeIndex - s.readIndex
    ELSE (BUFFER_SIZE - s.readIndex) + s.writeIndex

isBufferFull(s) ==
    IF IsFlashBacked(s.bufferMode) THEN s.flashSamplesWritten >= s.maxFlashSamples
    ELSE getBufferUsage(s) >= (BUFFER_SIZE - 1)

\* ----- flash persistence -------------------------------------------------
\* The write is taken to store all the bytes it is given.
flushFlashBuffer(s, env) ==
    IF (~s.flashWriteBuffer) \/ s.bufferPosition = 0 THEN s
    ELSE LET opened == IF s.flashDataFile THEN s
                       ELSE [s EXCEPT !.flashDataFile = env.open,
                                      !.flashFileExists = @ \/ env.open]
         IN IF opened.flashDataFile
            THEN [opened EXCEPT !.flashWritePosition = @ + s.bufferPosition,
                                !.flashFileSize = @ + s.bufferPosition,
                                !.flashFileFirst = IF s.flashFileSize = 0
                                                   THEN "sample" ELSE @,
                                !.bufferPosition = 0]
            ELSE opened

writeToFlash(s, env) ==
    IF ~s.flashWriteBuffer THEN s
    ELSE LET staged == [s EXCEPT !.tr.stage = Append(@, s.bufferPosition),
                                 !.bufferPosition = @ + SIZEOF_SAMPLE,
                                 !.flashSamplesWritten = @ + 1]
         IN IF staged.bufferPosition >= FLASH_CHUNK_SIZE - SIZEOF_SAMPLE
            THEN flushFlashBuffer(staged, env)
            ELSE staged

RECURSIVE writeAllToFlash(_, _, _)
\* the loop of processStreamingSample over the compressed records
writeAllToFlash(s, n, env) ==
    IF n = 0 THEN s ELSE writeAllToFlash(writeToFlash(s, env), n - 1, env)

initFlashLogicStorage(s, env) ==
    IF ~env.mount THEN addLogEntry(s, "Logic flash storage init failed")
    ELSE IF (~s.flashWriteBuffer) /\ ~env.mallocW THEN s
    ELSE LET a == [s EXCEPT !.flashWriteBuffer = TRUE,
                            !.compressedBuffer = @ \/ env.mallocC]
             b == [a EXCEPT !.flashStorageActive = TRUE, !.bufferPosition = 0,
                            !.compressed = <<>>]
         IN addLogEntry(b, "Logic flash storage initialized")

clearFlashLogicData(s) ==
    addLogEntry([s EXCEPT !.flashDataFile = FALSE, !.flashFileExists = FALSE,
                          !.flashFileSize = 0, !.flashFileFirst = "none",
                          !.flashSamplesWritten = 0,
                          !.flashWritePosition = 0, !.bufferPosition = 0,
                          !.compressed = <<>>],
                "Flash logic data cleared")

clearBuffer(s) ==
    LET r == [s EXCEPT !.writeIndex = 0, !.readIndex = 0, !.tr.clr = TRUE]
    IN IF IsFlashBacked(s.bufferMode)
       THEN [r EXCEPT !.flashSamplesWritten = 0, !.flashWritePosition = 0,
                      !.bufferPosition = 0, !.flashDataFile = FALSE,
                      !.flashFileExists = FALSE, !.flashFileSize = 0,
                      !.flashFileFirst = "none"]
       ELSE r

\* ----- compression -------------------------------------------------------
compressedCount(s) == Len(s.compressed)

compressRunLength(s, data, timestamp, count) ==
    IF compressedCount(s) < COMPRESSED_CAPACITY
    THEN [s EXCEPT !.compressed = Append(@, [timestamp |-> timestamp, count |-> count,
                                             data |-> data, type |-> "COMPRESS_RLE"])]
    ELSE s

\* compressDelta storing its record whatever the count
compressDelta_Unbounded(s, timestamp, data) ==
    [s EXCEPT !.compressed = Append(@, [timestamp |-> (timestamp - s.lastTimestamp) % U32,
                                        count |-> 1, data |-> data,
                                        type |-> "COMPRESS_DELTA"])]

compressDelta(s, timestamp, data) ==
    IF compressedCount(s) < COMPRESSED_CAPACITY
    THEN [s EXCEPT !.compressed = Append(@, [timestamp |-> (timestamp - s.lastTimestamp) % U32,
                                             count |-> 1, data |-> data,
                                             type |-> "COMPRESS_DELTA"])]
    ELSE s

\* compressSample whose hybrid case drops the pending run instead of
\* emitting it
compressSample_DropsPendingRun(s, sample) ==
    IF ~s.compressedBuffer THEN s
    ELSE LET c ==
             CASE s.compression = "COMPRESS_RLE" ->
                    compressRunLength(s, sample.data, sample.timestamp, 1)
               [] s.compression = "COMPRESS_DELTA" ->
                    compressDelta(s, sample.timestamp, sample.data)
               [] s.compression = "COMPRESS_HYBRID" ->
                    IF sample.data = s.lastData /\ s.runLength < RUN_MAX
                    THEN [s EXCEPT !.runLength = @ + 1]
                    ELSE [compressDelta(s, sample.timestamp, sample.data)
                             EXCEPT !.runLength = 1]
               [] OTHER -> s
         IN [c EXCEPT !.lastTimestamp = sample.timestamp, !.lastData = sample.data]

compressSample(s, sample) ==
    IF ~s.compressedBuffer THEN s
    ELSE LET c ==
             CASE s.compression = "COMPRESS_RLE" ->
                    compressRunLength(s, sample.data, sample.timestamp, 1)
               [] s.compression = "COMPRESS_DELTA" ->
                    compressDelta(s, sample.timestamp, sample.data)
               [] s.compression = "COMPRESS_HYBRID" ->
                    IF sample.data = s.lastData /\ s.runLength < RUN_MAX
                    THEN [s EXCEPT !.runLength = @ + 1]
                    ELSE LET f == IF s.runLength > 0
                                  THEN compressRunLength(s, s.lastData, s.lastTimestamp,
                                                         s.runLength)
                                  ELSE s
                         IN [compressDelta(f, sample.timestamp, sample.data)
                                EXCEPT !.runLength = 1]
               [] OTHER -> s
         IN [c EXCEPT !.lastTimestamp = sample.timestamp, !.lastData = sample.data]

\* sizeof(CompressedSample): uint32_t, uint16_t, bool, uint8_t
SIZEOF_COMPRESSED_SAMPLE == 8
INT32_MAX == 2147483647

\* (2^32 - x) / d in unsigned 32-bit arithmetic, for 0 < x <= 2^31 and d > 0:
\* 2^32 - x is 2 * INT32_MAX + 2 - x.
WrappedQuotient(x, d) ==
    2 * (INT32_MAX \div d) + ((2 * (INT32_MAX % d) + 2 - x) \div d)

\* The sizes and the product by 100 stay below 2^32 for the counts followed
\* here; the subtraction wraps when the compressed size is the larger.
getCompressionRatio(s) ==
    LET originalSize == s.flashSamplesWritten * SIZEOF_SAMPLE
        compressedSize == compressedCount(s) * SIZEOF_COMPRESSED_SAMPLE
    IN IF s.flashSamplesWritten = 0 THEN 0
       ELSE IF compressedSize = 0 THEN 0
       ELSE IF originalSize >= compressedSize
       THEN ((originalSize - compressedSize) * 100) \div originalSize
       ELSE WrappedQuotient((compressedSize - originalSize) * 100, originalSize)

enableCompression(s, type) ==
    addLogEntry([s EXCEPT !.compression = type, !.runLength = 0,
                          !.lastTimestamp = 0, !.lastData = FALSE],
                "Compression enabled")

clearCompressedBuffer(s) ==
    [s EXCEPT !.compressed = <<>>, !.runLength = 0, !.lastTimestamp = 0,
              !.lastData = FALSE]

\* ----- streaming ---------------------------------------------------------
enableStreamingMode(s, enable, env) ==
    LET a == [s EXCEPT !.streamingActive = enable, !.streamingCount = 0]
    IN IF enable
       THEN addLogEntry(initFlashLogicStorage(a, env),
                        "Streaming mode enabled - continuous capture to flash")
       ELSE addLogEntry([flushFlashBuffer(a, env) EXCEPT !.flashDataFile = FALSE],
                        "Streaming mode disabled")

processStreamingSample(s, sample, env) ==
    IF ~s.streamingActive THEN s
    ELSE LET a == [s EXCEPT !.streamingCount = @ + 1]
             b == IF a.compression # "COMPRESS_NONE"
                  THEN LET c == compressSample(a, sample)
                       IN IF compressedCount(c) >= COMPRESSED_DRAIN
                          THEN [writeAllToFlash(c, compressedCount(c), env)
                                   EXCEPT !.compressed = <<>>]
                          ELSE c
                  ELSE writeToFlash(a, env)
         IN IF b.streamingCount % STREAM_FLUSH_EVERY = 0
            THEN flushFlashBuffer(b, env)
            ELSE b

stopStreaming(s, env) ==
    IF s.streamingActive
    THEN addLogEntry([flushFlashBuffer(s, env) EXCEPT !.flashDataFile = FALSE,
                                                      !.streamingActive = FALSE],
                     "Streaming capture stopped")
    ELSE s

\* ----- buffer mode -------------------------------------------------------
enableFlashBuffering(s, mode, maxSamples, env) ==
    LET limited == IF maxSamples > MAX_FLASH_BUFFER_SIZE THEN MAX_FLASH_BUFFER_SIZE
                   ELSE maxSamples
        a == [s EXCEPT !.bufferMode = mode, !.maxFlashSamples = limited]
        b == IF IsFlashBacked(mode)
             THEN addLogEntry(addLogEntry([initFlashLogicStorage(a, env)
                                              EXCEPT !.flashHeader =
                                                  [magic |-> FLASH_MAGIC,
                                                   version |-> FLASH_VERSION]],
                                          "Flash buffering enabled"),
                              "WARNING: Flash storage shared with UART logs")
             ELSE a
    IN IF mode = "BUFFER_COMPRESSED"
       THEN addLogEntry(IF ~b.compressedBuffer THEN initFlashLogicStorage(b, env) ELSE b,
                        "Compression enabled")
       ELSE b

setBufferMode(s, mode, env) ==
    LET a == [s EXCEPT !.bufferMode = mode]
    IN CASE mode = "BUFFER_FLASH" -> enableFlashBuffering(a, mode, FLASH_BUFFER_SIZE, env)
         [] mode = "BUFFER_STREAMING" -> enableStreamingMode(a, TRUE, env)
         [] mode = "BUFFER_COMPRESSED" -> enableCompression(a, "COMPRESS_HYBRID")
         [] OTHER -> a

\* ----- recording ---------------------------------------------------------
\* addSample advancing the write index by two slots
addSample_SkipsSlot(s, data, timestamp, env) ==
    LET sample == [timestamp |-> timestamp, data |-> data]
        a == [s EXCEPT !.tr.add = Append(@, data), !.tr.smp = Append(@, sample)]
    IN CASE a.bufferMode = "BUFFER_RAM" ->
              [a EXCEPT !.buffer[a.writeIndex] = sample,
                        !.writeIndex = (a.writeIndex + 2) % BUFFER_SIZE]
         [] a.bufferMode = "BUFFER_FLASH" -> writeToFlash(a, env)
         [] a.bufferMode = "BUFFER_STREAMING" -> processStreamingSample(a, sample, env)
         [] a.bufferMode = "BUFFER_COMPRESSED" -> compressSample(a, sample)

addSample(s, data, timestamp, env) ==
    LET sample == [timestamp |-> timestamp, data |-> data]
        a == [s EXCEPT !.tr.add = Append(@, data), !.tr.smp = Append(@, sample)]
    IN CASE a.bufferMode = "BUFFER_RAM" ->
              [a EXCEPT !.buffer[a.writeIndex] = sample,
                        !.writeIndex = (a.writeIndex + 1) % BUFFER_SIZE]
         [] a.bufferMode = "BUFFER_FLASH" -> writeToFlash(a, env)
         [] a.bufferMode = "BUFFER_STREAMING" -> processStreamingSample(a, sample, env)
         [] a.bufferMode = "BUFFER_COMPRESSED" -> compressSample(a, sample)

\* startCapture arming the trigger whatever the mode
startCapture_AlwaysArms(s) ==
    LET a == clearBuffer(s)
    IN addLogEntry([a EXCEPT !.triggerArmed = TRUE, !.capturing = TRUE],
                   "Capture started on GPIO1")

startCapture(s) ==
    LET a == clearBuffer(s)
    IN addLogEntry([a EXCEPT !.triggerArmed = (a.triggerMode = "TRIGGER_NONE"),
                             !.capturing = TRUE],
                   "Capture started on GPIO1")

stopCapture(s, env) ==
    LET a == addLogEntry([s EXCEPT !.capturing = FALSE], "Capture stopped")
    IN IF a.bufferMode = "BUFFER_FLASH" THEN flushFlashBuffer(a, env) ELSE a

\* ----- UART log ---------------------------------------------------------
\* maxUartEntries * 0.9 and maxUartEntries * 0.2 are computed in double; for
\* the capacities followed here the comparison and the truncation to size_t
\* agree with the integer forms below.
compactUartLogs(s) ==
    IF 10 * Len(s.uartLogBuffer) >= 9 * s.maxUartEntries
    THEN LET removeCount == (2 * s.maxUartEntries) \div 10
         IN addLogEntry([s EXCEPT !.uartLogBuffer =
                                     SubSeq(@, removeCount + 1, Len(@))],
                        "UART buffer compacted")
    ELSE s

\* addUartEntry without the push_back of the failed open.
addUartEntry_DropsOnOpenFailure(s, data, isRx, env) ==
    LET uartEntry == [timestamp |-> s.millis,
                      direction |-> IF isRx THEN "RX" ELSE "TX", data |-> data]
        a == [s EXCEPT !.tr.uart = Append(@, uartEntry)]
        b == IF a.useFlashStorage
             THEN IF env.append
                  THEN [a EXCEPT !.uartLogFile = Append(@, uartEntry),
                                 !.uartLogFileExists = TRUE]
                  ELSE a
             ELSE LET pushed == [a EXCEPT !.uartLogBuffer = Append(@, uartEntry)]
                  IN IF Len(pushed.uartLogBuffer) > pushed.maxUartEntries
                     THEN compactUartLogs(pushed)
                     ELSE pushed
    IN addLogEntry(b, IF isRx THEN "UART RX" ELSE "UART TX")

\* An entry is the line "<millis>: [UART <direction>] <data>", kept as its
\* three parts; data is a sequence of characters.
addUartEntry(s, data, isRx, env) ==
    LET uartEntry == [timestamp |-> s.millis,
                      direction |-> IF isRx THEN "RX" ELSE "TX", data |-> data]
        a == [s EXCEPT !.tr.uart = Append(@, uartEntry)]
        b == IF a.useFlashStorage
             THEN IF env.append
                  THEN [a EXCEPT !.uartLogFile = Append(@, uartEntry),
                                 !.uartLogFileExists = TRUE]
                  ELSE [a EXCEPT !.uartLogBuffer = Append(@, uartEntry)]
             ELSE LET pushed == [a EXCEPT !.uartLogBuffer = Append(@, uartEntry)]
                  IN IF Len(pushed.uartLogBuffer) > pushed.maxUartEntries
                     THEN compactUartLogs(pushed)
                     ELSE pushed
    IN addLogEntry(b, IF isRx THEN "UART RX" ELSE "UART TX")

setUartBufferSize(s, maxEntries) ==
    LET excess == IF Len(s.uartLogBuffer) > maxEntries
                  THEN Len(s.uartLogBuffer) - maxEntries ELSE 0
    IN addLogEntry([s EXCEPT !.maxUartEntries = maxEntries,
                             !.uartLogBuffer = SubSeq(@, excess + 1, Len(@))],
                   "UART buffer size set")

isUartBufferFull(s) == Len(s.uartLogBuffer) >= s.maxUartEntries

\* LittleFS.remove is taken to succeed.
clearFlashUartLogs(s) ==
    IF s.useFlashStorage /\ s.uartLogFileExists
    THEN addLogEntry([s EXCEPT !.uartLogFile = <<>>, !.uartLogFileExists = FALSE],
                     "Flash UART logs cleared")
    ELSE s

clearUartLogs(s) ==
    addLogEntry(IF s.useFlashStorage THEN clearFlashUartLogs(s)
                ELSE [s EXCEPT !.uartLogBuffer = <<>>],
                "UART logs cleared")

\* A line of the log file as readStringUntil('\n') returns it: println ends
\* the line with "\r\n", and the carriage return stays on the line read.
ReadLine(entry) == [entry EXCEPT !.data = @ \o <<"CR">>]

\* mounted and formatted are the results of LittleFS.begin() and
\* LittleFS.begin(true), env.append the result of opening the log file.  The
\* name made from millis() is taken to name no existing file.
enableFlashStorage(s, enable, mounted, formatted, env) ==
    LET a == IF enable /\ ~mounted
             THEN addLogEntry(s, "Flash storage mount failed - formatting...")
             ELSE s
    IN IF enable /\ ~mounted /\ ~formatted
       THEN [addLogEntry(a, "Flash storage format failed - using RAM")
                EXCEPT !.useFlashStorage = FALSE]
       ELSE LET b == IF enable /\ ~mounted
                     THEN addLogEntry(a, "Flash storage formatted and ready")
                     ELSE a
            IN IF enable = b.useFlashStorage THEN b
               ELSE IF enable
               THEN LET c == addLogEntry([b EXCEPT !.useFlashStorage = TRUE,
                                                   !.uartLogFile = <<>>,
                                                   !.uartLogFileExists = FALSE],
                                         "Switched to Flash storage")
                    IN IF c.uartLogBuffer # <<>> /\ env.append
                       THEN addLogEntry([c EXCEPT !.uartLogFile = c.uartLogBuffer,
                                                  !.uartLogFileExists = TRUE,
                                                  !.uartLogBuffer = <<>>],
                                        "Migrated entries to Flash")
                       ELSE c
               ELSE LET c == [b EXCEPT !.useFlashStorage = FALSE]
                        d == IF c.uartLogFileExists /\ env.append
                             THEN addLogEntry(
                                      [c EXCEPT !.uartLogBuffer =
                                           [i \in 1..(IF Len(c.uartLogFile) < c.maxUartEntries
                                                      THEN Len(c.uartLogFile)
                                                      ELSE c.maxUartEntries) |->
                                               ReadLine(c.uartLogFile[i])]],
                                      "Migrated entries from Flash to RAM")
                             ELSE c
                    IN addLogEntry(d, "Switched to RAM storage")

\* ----- UART receive path -------------------------------------------------
\* "[0x" + String(c, HEX) + "]" for the byte 0x01
HexEscape(c) == <<"[", "0", "x", "1", "]">>

\* The line buffer followed by a marker such as " [TRUNCATED]".
Marked(line, marker) == IF marker = "" THEN line ELSE Append(line, marker)

RECURSIVE receiveBytes(_, _, _, _)
\* receiveBytes logging an entry for every terminator, empty line or not
receiveBytes_LogsEmptyLines(s, env, closed, truncated) ==
    IF s.uartFifo = <<>> THEN s
    ELSE LET c == Head(s.uartFifo)
             a == [s EXCEPT !.uartFifo = Tail(@), !.lastUartActivity = s.millis,
                            !.tr.rx = Append(@, c)]
             b == IF c \in Terminators
                  THEN [addUartEntry(a, Marked(a.uartRxBuffer, closed), TRUE, env)
                           EXCEPT !.uartRxBuffer = <<>>]
                  ELSE IF c \in Printable
                  THEN LET r == [a EXCEPT !.uartRxBuffer = Append(@, c)]
                       IN IF Len(r.uartRxBuffer) > UART_MSG_MAX_LENGTH
                          THEN [addUartEntry(r, Marked(r.uartRxBuffer, truncated),
                                             TRUE, env)
                                   EXCEPT !.uartRxBuffer = <<>>]
                          ELSE r
                  ELSE [a EXCEPT !.uartRxBuffer = @ \o HexEscape(c)]
         IN receiveBytes(b, env, closed, truncated)

\* while (uartSerial->available()) of processUartData and of
\* processDualModeData; closed and truncated are the markers of the path.
\* millis() keeps its value during a tick.
receiveBytes(s, env, closed, truncated) ==
    IF s.uartFifo = <<>> THEN s
    ELSE LET c == Head(s.uartFifo)
             a == [s EXCEPT !.uartFifo = Tail(@), !.lastUartActivity = s.millis,
                            !.tr.rx = Append(@, c)]
             b == IF c \in Terminators
                  THEN IF a.uartRxBuffer # <<>>
                       THEN [addUartEntry(a, Marked(a.uartRxBuffer, closed), TRUE, env)
                                EXCEPT !.uartRxBuffer = <<>>]
                       ELSE a
                  ELSE IF c \in Printable
                  THEN LET r == [a EXCEPT !.uartRxBuffer = Append(@, c)]
                       IN IF Len(r.uartRxBuffer) > UART_MSG_MAX_LENGTH
                          THEN [addUartEntry(r, Marked(r.uartRxBuffer, truncated),
                                             TRUE, env)
                                   EXCEPT !.uartRxBuffer = <<>>]
                          ELSE r
                  ELSE [a EXCEPT !.uartRxBuffer = @ \o HexEscape(c)]
         IN receiveBytes(b, env, closed, truncated)

\* The flush of an incomplete line after UART_RX_TIMEOUT without a byte.
flushIncompleteLine(s, env, marker) ==
    IF s.uartRxBuffer # <<>> /\ s.millis - s.lastUartActivity > UART_RX_TIMEOUT
    THEN [addUartEntry(s, Marked(s.uartRxBuffer, marker), TRUE, env)
             EXCEPT !.uartRxBuffer = <<>>]
    ELSE s

\* ----- half-duplex engine --------------------------------------------------
\* uartSerial->end() drops the bytes waiting in the receiver.
switchToRxMode(s) ==
    IF s.halfDuplexTxMode
    THEN addLogEntry([s EXCEPT !.halfDuplexTxMode = FALSE, !.halfDuplexBusy = FALSE,
                               !.uartFifo = IF s.uartSerial THEN <<>> ELSE @],
                     "Half-duplex: Switched to RX mode")
    ELSE s

switchToTxMode(s) ==
    IF ~s.halfDuplexTxMode
    THEN addLogEntry([s EXCEPT !.halfDuplexTxMode = TRUE,
                               !.uartFifo = IF s.uartSerial THEN <<>> ELSE @],
                     "Half-duplex: Switched to TX mode")
    ELSE s

processHalfDuplexQueue(s, env) ==
    IF s.halfDuplexTxQueue # <<>> /\ ~s.halfDuplexBusy
    THEN LET a == switchToTxMode(s)
             b == IF a.uartSerial
                  THEN [a EXCEPT !.tr.tx = Append(@, a.halfDuplexTxQueue)]
                  ELSE a
             c == addUartEntry(b, b.halfDuplexTxQueue, FALSE, env)
         IN addLogEntry([c EXCEPT !.halfDuplexTxQueue = <<>>,
                                  !.halfDuplexTxTimeout = c.millis,
                                  !.halfDuplexBusy = TRUE],
                        "Half-duplex: Command sent, waiting for response")
    ELSE s

\* command + "\r\n"
WithLineEnding(command) == command \o <<"CR", "LF">>

sendHalfDuplexCommand(s, command) ==
    IF s.duplexMode # "UART_HALF_DUPLEX"
    THEN [addLogEntry(s, "Error: Half-duplex command sent but not in half-duplex mode")
             EXCEPT !.tr.ret = FALSE]
    ELSE IF s.halfDuplexBusy
    THEN [addLogEntry(s, "Error: Half-duplex busy, command queued")
             EXCEPT !.halfDuplexTxQueue = WithLineEnding(command), !.tr.ret = FALSE]
    ELSE [addLogEntry([s EXCEPT !.halfDuplexTxQueue = WithLineEnding(command)],
                      "Half-duplex: Command queued")
             EXCEPT !.tr.ret = TRUE]

processUartData(s, env) ==
    IF (~s.uartSerial) \/ ~s.uartMonitoringEnabled THEN s
    ELSE LET a == IF s.duplexMode = "UART_HALF_DUPLEX"
                  THEN LET q == processHalfDuplexQueue(s, env)
                       IN IF q.halfDuplexTxMode
                             /\ q.millis - q.halfDuplexTxTimeout > HALF_DUPLEX_TX_TIMEOUT
                          THEN switchToRxMode(q)
                          ELSE q
                  ELSE s
         IN IF a.duplexMode = "UART_FULL_DUPLEX" \/ ~a.halfDuplexTxMode
            THEN flushIncompleteLine(receiveBytes(a, env, "", " [TRUNCATED]"),
                                     env, " [TIMEOUT]")
            ELSE a

\* ----- dual mode ---------------------------------------------------------
isDualModeCompatible(s) == s.rxPin = s.gpioPin

\* "Dual-mode failed: Pin conflict - UART on GPIO<rx>, Logic on GPIO<gpio>"
PinConflictMessage(rx, gpio) ==
    "Dual-mode failed: Pin conflict - UART on GPIO" \o ToString(rx)
        \o ", Logic on GPIO" \o ToString(gpio)

\* enableDualMode leaving dualModeActive as it is on a pin conflict
enableDualMode_LeavesActive(s, enable) ==
    IF enable /\ isDualModeCompatible(s)
    THEN addLogEntry([s EXCEPT !.dualModeActive = TRUE], "Dual-mode activated")
    ELSE IF enable /\ ~isDualModeCompatible(s)
    THEN addLogEntry(s, PinConflictMessage(s.rxPin, s.gpioPin))
    ELSE addLogEntry([s EXCEPT !.dualModeActive = FALSE], "Dual-mode deactivated")

enableDualMode(s, enable) ==
    IF enable /\ isDualModeCompatible(s)
    THEN addLogEntry([s EXCEPT !.dualModeActive = TRUE], "Dual-mode activated")
    ELSE IF enable /\ ~isDualModeCompatible(s)
    THEN addLogEntry([s EXCEPT !.dualModeActive = FALSE],
                     PinConflictMessage(s.rxPin, s.gpioPin))
    ELSE addLogEntry([s EXCEPT !.dualModeActive = FALSE], "Dual-mode deactivated")

\* processDualModeData logging the full buffer without ending the capture
processDualModeData_KeepsCapturing(s, currentState, timestamp, env) ==
    LET a == IF s.triggerMode # "TRIGGER_NONE" /\ ~s.triggerArmed
             THEN LET e == evalTrigger(s, currentState)
                      f == IF checkTrigger(s.triggerMode, s.lastState, currentState)
                           THEN addLogEntry([e EXCEPT !.triggerArmed = TRUE],
                                            "Dual-mode trigger activated")
                           ELSE e
                  IN [f EXCEPT !.lastState = currentState]
             ELSE s
        b == IF a.triggerArmed THEN addSample(a, currentState, timestamp, env) ELSE a
        u == IF b.uartSerial
             THEN receiveBytes(b, env, " [DUAL]", " [DUAL-TRUNC]")
             ELSE b
        c == [flushIncompleteLine(u, env, " [DUAL-TIMEOUT]")
                 EXCEPT !.lastState = currentState]
    IN IF isBufferFull(c)
       THEN addLogEntry(c, "Dual-mode Logic buffer full - stopping capture")
       ELSE c

processDualModeData(s, currentState, timestamp, env) ==
    LET a == IF s.triggerMode # "TRIGGER_NONE" /\ ~s.triggerArmed
             THEN LET e == evalTrigger(s, currentState)
                      f == IF checkTrigger(s.triggerMode, s.lastState, currentState)
                           THEN addLogEntry([e EXCEPT !.triggerArmed = TRUE],
                                            "Dual-mode trigger activated")
                           ELSE e
                  IN [f EXCEPT !.lastState = currentState]
             ELSE s
        b == IF a.triggerArmed THEN addSample(a, currentState, timestamp, env) ELSE a
        u == IF b.uartSerial
             THEN receiveBytes(b, env, " [DUAL]", " [DUAL-TRUNC]")
             ELSE b
        c == [flushIncompleteLine(u, env, " [DUAL-TIMEOUT]")
                 EXCEPT !.lastState = currentState]
    IN IF isBufferFull(c)
       THEN [addLogEntry(c, "Dual-mode Logic buffer full - stopping capture")
                EXCEPT !.capturing = FALSE]
       ELSE c

\* ----- acquisition loop --------------------------------------------------
\* elapsed is the outcome of currentTime - lastSampleTime >= sampleInterval,
\* currentState the level readGPIO1() returns, timestamp the value of micros().
\* process_KeepsLastState is process without the update of lastState on a
\* tick that evaluates the trigger.
process_KeepsLastState(s, elapsed, currentState, timestamp, env) ==
    IF s.dualModeActive /\ s.uartMonitoringEnabled /\ s.capturing
    THEN IF elapsed
         THEN processDualModeData([s EXCEPT !.tr.read = Append(@, currentState)],
                                  currentState, timestamp, env)
         ELSE s
    ELSE LET u == IF s.uartMonitoringEnabled THEN processUartData(s, env) ELSE s
    IN IF ~u.capturing THEN u
    ELSE IF ~elapsed THEN u
    ELSE LET r == [u EXCEPT !.tr.read = Append(@, currentState)]
         IN IF r.triggerMode # "TRIGGER_NONE" /\ ~r.triggerArmed
            THEN LET e == evalTrigger(r, currentState)
                 IN IF checkTrigger(r.triggerMode, r.lastState, currentState)
                    THEN addLogEntry([e EXCEPT !.triggerArmed = TRUE],
                                     "Trigger activated on GPIO1")
                    ELSE e
            ELSE LET a == [addSample(r, currentState, timestamp, env)
                              EXCEPT !.lastState = currentState]
                 IN IF isBufferFull(a)
                    THEN stopCapture(addLogEntry(a, "Buffer full - auto-stopping capture"),
                                     env)
                    ELSE a

process(s, elapsed, currentState, timestamp, env) ==
    IF s.dualModeActive /\ s.uartMonitoringEnabled /\ s.capturing
    THEN IF elapsed
         THEN processDualModeData([s EXCEPT !.tr.read = Append(@, currentState)],
                                  currentState, timestamp, env)
         ELSE s
    ELSE LET u == IF s.uartMonitoringEnabled THEN processUartData(s, env) ELSE s
    IN IF ~u.capturing THEN u
    ELSE IF ~elapsed THEN u
    ELSE LET r == [u EXCEPT !.tr.read = Append(@, currentState)]
         IN IF r.triggerMode # "TRIGGER_NONE" /\ ~r.triggerArmed
            THEN LET e == evalTrigger(r, currentState)
                     f == IF checkTrigger(r.triggerMode, r.lastState, currentState)
                          THEN addLogEntry([e EXCEPT !.triggerArmed = TRUE],
                                           "Trigger activated on GPIO1")
                          ELSE e
                 IN [f EXCEPT !.lastState = currentState]
            ELSE LET a == [addSample(r, currentState, timestamp, env)
                              EXCEPT !.lastState = currentState]
                 IN IF isBufferFull(a)
                    THEN stopCapture(addLogEntry(a, "Buffer full - auto-stopping capture"),
                                     env)
                    ELSE a

\* process() in two parts, for a tick that another task can interrupt: the
\* part up to the test of capturing on the normal path, and the part from
\* the sample interval test on, which does not read capturing again.
reachesSampling(s) == ~(s.dualModeActive /\ s.uartMonitoringEnabled /\ s.capturing)

processEntry(s, env) == IF s.uartMonitoringEnabled THEN processUartData(s, env) ELSE s

processSampling(s, elapsed, currentState, timestamp, env) ==
    IF ~elapsed THEN s
    ELSE LET r == [s EXCEPT !.tr.read = Append(@, currentState)]
         IN IF r.triggerMode # "TRIGGER_NONE" /\ ~r.triggerArmed
            THEN LET e == evalTrigger(r, currentState)
                     f == IF checkTrigger(r.triggerMode, r.lastState, currentState)
                          THEN addLogEntry([e EXCEPT !.triggerArmed = TRUE],
                                           "Trigger activated on GPIO1")
                          ELSE e
                 IN [f EXCEPT !.lastState = currentState]
            ELSE LET a == [addSample(r, currentState, timestamp, env)
                              EXCEPT !.lastState = currentState]
                 IN IF isBufferFull(a)
                    THEN stopCapture(addLogEntry(a, "Buffer full - auto-stopping capture"),
                                     env)
                    ELSE a

\* ----- configuration ----------------------------------------------------
\* (TriggerMode) of a stored or requested integer
TriggerModeOf(n) ==
    CASE n = 1 -> "TRIGGER_RISING_EDGE"
      [] n = 2 -> "TRIGGER_FALLING_EDGE"
      [] n = 3 -> "TRIGGER_BOTH_EDGES"
      [] n = 4 -> "TRIGGER_HIGH_LEVEL"
      [] n = 5 -> "TRIGGER_LOW_LEVEL"
      [] OTHER -> "TRIGGER_NONE"

saveLogicConfig(s) ==
    IF s.preferences THEN addLogEntry(s, "Logic config saved")
    ELSE addLogEntry(s, "Logic config save failed - no preferences available")

setSampleRate(s, rate) ==
    LET r == IF rate < MIN_SAMPLE_RATE THEN MIN_SAMPLE_RATE
             ELSE IF rate > MAX_SAMPLE_RATE THEN MAX_SAMPLE_RATE ELSE rate
    IN [s EXCEPT !.sampleRate = r, !.sampleInterval = 1000000 \div r]

\* configureLogic storing every argument as given
configureLogic_NoClamp(s, sampleRateArg, gpioPinArg, triggerModeArg, bufferSizeArg, preTriggerPercentArg) ==
    LET mode == IF triggerModeArg < 0 \/ triggerModeArg > 5 THEN "TRIGGER_NONE"
                ELSE TriggerModeOf(triggerModeArg)
        c == [s EXCEPT !.tr.args = <<sampleRateArg, gpioPinArg, triggerModeArg,
                                     bufferSizeArg, preTriggerPercentArg>>,
                       !.configSampleRate = sampleRateArg, !.bufferSize = bufferSizeArg,
                       !.preTriggerPercent = preTriggerPercentArg]
        a == [setTrigger(setSampleRate(c, sampleRateArg), mode) EXCEPT !.gpioPin = gpioPinArg]
    IN addLogEntry(saveLogicConfig(a), "Logic Analyzer configured")

configureLogic(s, sampleRateArg, gpioPinArg, triggerModeArg, bufferSizeArg, preTriggerPercentArg) ==
    LET rate == IF sampleRateArg < MIN_SAMPLE_RATE THEN MIN_SAMPLE_RATE
                ELSE IF sampleRateArg > MAX_SAMPLE_RATE THEN MAX_SAMPLE_RATE
                ELSE sampleRateArg
        pin == IF gpioPinArg > MAX_GPIO THEN CHANNEL_0_PIN ELSE gpioPinArg
        size == IF bufferSizeArg > MAX_BUFFER_SIZE
                THEN MAX_BUFFER_SIZE
                ELSE IF bufferSizeArg < MIN_BUFFER_SIZE THEN MIN_BUFFER_SIZE
                ELSE bufferSizeArg
        pre == IF preTriggerPercentArg > MAX_PRE_TRIGGER THEN MAX_PRE_TRIGGER
               ELSE preTriggerPercentArg
        mode == IF triggerModeArg < 0 \/ triggerModeArg > 5 THEN "TRIGGER_NONE"
                ELSE TriggerModeOf(triggerModeArg)
        c == [s EXCEPT !.tr.args = <<sampleRateArg, gpioPinArg, triggerModeArg,
                                     bufferSizeArg, preTriggerPercentArg>>,
                       !.configSampleRate = rate, !.bufferSize = size,
                       !.preTriggerPercent = pre]
        a == [setTrigger(setSampleRate(c, rate), mode) EXCEPT !.gpioPin = pin]
    IN addLogEntry(saveLogicConfig(a), "Logic Analyzer configured")

\* No rate, buffer size or pre-trigger percentage is stored: the defaults of
\* the getUInt and getUChar calls are used.
loadLogicConfig(s, storedPin, storedTrigger) ==
    LET d == [s EXCEPT !.configSampleRate = DEFAULT_SAMPLE_RATE,
                       !.bufferSize = CONFIG_BUFFER_SIZE, !.preTriggerPercent = 10]
    IN IF s.preferences
       THEN addLogEntry([setTrigger(setSampleRate(d, d.configSampleRate),
                                    TriggerModeOf(storedTrigger))
                            EXCEPT !.gpioPin = storedPin],
                        "Logic config loaded")
       ELSE addLogEntry([d EXCEPT !.gpioPin = CHANNEL_0_PIN],
                        "Logic config loaded (defaults - no preferences available)")

saveUartConfig(s) ==
    IF s.preferences THEN addLogEntry(s, "UART config saved")
    ELSE addLogEntry(s, "UART config save failed - no preferences available")

\* The RX pin and the duplex mode of configureUart.
configureUart(s, rxPinArg, duplexModeArg) ==
    addLogEntry(saveUartConfig([s EXCEPT !.rxPin = rxPinArg,
                                         !.duplexMode = duplexModeArg,
                                         !.halfDuplexTxMode = FALSE,
                                         !.halfDuplexTxTimeout = 0,
                                         !.halfDuplexTxQueue = <<>>,
                                         !.halfDuplexBusy = FALSE]),
                "UART configured")

\* The key uart_duplex is taken to hold its default.
loadUartConfig(s, storedRx) ==
    IF s.preferences
    THEN addLogEntry([s EXCEPT !.rxPin = storedRx, !.duplexMode = "UART_FULL_DUPLEX"],
                     "UART config loaded")
    ELSE addLogEntry([s EXCEPT !.rxPin = DEFAULT_RX_PIN,
                               !.duplexMode = "UART_FULL_DUPLEX"],
                     "UART config loaded (defaults - no preferences available)")

\* uartSerial->end() drops the bytes waiting in the receiver.
enableUartMonitoring(s) ==
    LET a == [s EXCEPT !.uartFifo = IF s.uartSerial THEN <<>> ELSE @,
                       !.uartSerial = TRUE]
        b == IF a.duplexMode = "UART_HALF_DUPLEX"
             THEN addLogEntry([a EXCEPT !.halfDuplexTxMode = FALSE,
                                        !.halfDuplexBusy = FALSE],
                              "Half-duplex mode: RX pin (bidirectional)")
             ELSE a
    IN addLogEntry([b EXCEPT !.uartMonitoringEnabled = TRUE, !.uartRxBuffer = <<>>,
                             !.lastUartActivity = b.millis],
                   "UART monitoring enabled")

disableUartMonitoring(s) ==
    addLogEntry([s EXCEPT !.uartMonitoringEnabled = FALSE,
                          !.uartFifo = IF s.uartSerial THEN <<>> ELSE @,
                          !.uartSerial = FALSE],
                "UART monitoring disabled")

\* ----- start-up ----------------------------------------------------------
\* mounted and formatted are the results of LittleFS.begin() and
\* LittleFS.begin(true).
initFlashStorage(s, mounted, formatted) ==
    IF ~mounted
    THEN LET a == addLogEntry(s, "Flash storage mount failed - formatting...")
         IN IF ~formatted
            THEN [addLogEntry(a, "Flash storage initialization failed - format error")
                     EXCEPT !.useFlashStorage = FALSE]
            ELSE addLogEntry(addLogEntry(a, "Flash storage formatted and initialized"),
                             "Flash: total, used, free")
    ELSE addLogEntry(addLogEntry(s, "Flash storage available (LittleFS)"),
                     "Flash: total, used, free")

begin(s, mounted, formatted, env) ==
    LET a == initFlashStorage(clearBuffer(s), mounted, formatted)
    IN IF a.bufferMode = "BUFFER_FLASH"
       THEN addLogEntry(enableFlashBuffering(a, "BUFFER_FLASH", a.maxFlashSamples, env),
                        "Logic Analyzer Flash mode enabled")
       ELSE a

\* setup() of main.cpp, as far as it acts on the analyzer.
setup(s, mounted, formatted, env, storedPin, storedTrigger, storedRx) ==
    LET a == [begin(s, mounted, formatted, env) EXCEPT !.preferences = TRUE]
        b == loadUartConfig(loadLogicConfig(a, storedPin, storedTrigger), storedRx)
    IN addLogEntry(addLogEntry(b, "Logic Analyzer initialized with defaults"),
                   "Web server started")

\* ----- exports -----------------------------------------------------------
\* (int) of a trigger mode
TriggerModeNumber(mode) ==
    CASE mode = "TRIGGER_RISING_EDGE" -> 1
      [] mode = "TRIGGER_FALLING_EDGE" -> 2
      [] mode = "TRIGGER_BOTH_EDGES" -> 3
      [] mode = "TRIGGER_HIGH_LEVEL" -> 4
      [] mode = "TRIGGER_LOW_LEVEL" -> 5
      [] OTHER -> 0

\* The slot of the ring the i-th exported entry is read from.
ExportSlot(s, i) == s.buffer[(s.readIndex + i - 1) % BUFFER_SIZE]

\* getDataAsJSON reading the ring from writeIndex instead of readIndex
getDataAsJSON_FromWriteIndex(s) ==
    LET count == getBufferUsage(s)
    IN [sample_count |-> count,
        samples |-> [i \in 1..count |->
                        LET e == s.buffer[(s.writeIndex + i - 1) % BUFFER_SIZE]
                        IN [timestamp |-> e.timestamp, gpio1 |-> e.data,
                            state |-> IF e.data THEN "HIGH" ELSE "LOW"]],
        sample_rate |-> s.sampleRate, gpio_pin |-> s.gpioPin,
        trigger_mode |-> TriggerModeNumber(s.triggerMode),
        buffer_size |-> BUFFER_SIZE]

\* The JSON document as the value it denotes: the "samples" array and the
\* scalar members.
getDataAsJSON(s) ==
    LET count == getBufferUsage(s)
    IN [sample_count |-> count,
        samples |-> [i \in 1..count |->
                        LET e == ExportSlot(s, i)
                        IN [timestamp |-> e.timestamp, gpio1 |-> e.data,
                            state |-> IF e.data THEN "HIGH" ELSE "LOW"]],
        sample_rate |-> s.sampleRate, gpio_pin |-> s.gpioPin,
        trigger_mode |-> TriggerModeNumber(s.triggerMode),
        buffer_size |-> BUFFER_SIZE]

\* The CSV text as its header fields and its data rows
\* Sample,Timestamp_us,GPIO1_Digital,GPIO1_State.
getDataAsCSV(s) ==
    LET count == getBufferUsage(s)
    IN [sample_rate |-> s.sampleRate, gpio_pin |-> s.gpioPin,
        usage |-> count, of |-> BUFFER_SIZE,
        rows |-> [i \in 1..count |->
                     LET e == ExportSlot(s, i)
                     IN <<i, e.timestamp, IF e.data THEN 1 ELSE 0,
                          IF e.data THEN "HIGH" ELSE "LOW">>]]

\* The flash status document: counters only.
getFlashDataAsJSON(s) ==
    [flash_samples |-> s.flashSamplesWritten, flash_position |-> s.flashWritePosition,
     buffer_mode |-> s.bufferMode]

\* ----- the state machine ------------------------------------------------
Min(a, b) == IF a < b THEN a ELSE b

\* The members of the object become the next state.
Set(s) ==
    /\ writeIndex' = s.writeIndex /\ readIndex' = s.readIndex /\ buffer' = s.buffer
    /\ capturing' = s.capturing /\ triggerMode' = s.triggerMode
    /\ lastState' = s.lastState /\ triggerArmed' = s.triggerArmed
    /\ bufferMode' = s.bufferMode /\ maxFlashSamples' = s.maxFlashSamples
    /\ compression' = s.compression /\ gpioPin' = s.gpioPin /\ rxPin' = s.rxPin
    /\ flashSamplesWritten' = s.flashSamplesWritten
    /\ flashWritePosition' = s.flashWritePosition
    /\ bufferPosition' = s.bufferPosition
    /\ flashWriteBuffer' = s.flashWriteBuffer /\ flashDataFile' = s.flashDataFile
    /\ flashFileExists' = s.flashFileExists /\ flashFileSize' = s.flashFileSize
    /\ flashStorageActive' = s.flashStorageActive
    /\ compressedBuffer' = s.compressedBuffer /\ compressed' = s.compressed
    /\ lastTimestamp' = s.lastTimestamp /\ lastData' = s.lastData
    /\ runLength' = s.runLength
    /\ streamingActive' = s.streamingActive /\ streamingCount' = s.streamingCount
    /\ dualModeActive' = s.dualModeActive
    /\ uartMonitoringEnabled' = s.uartMonitoringEnabled
    /\ serialLogBuffer' = s.serialLogBuffer /\ preferences' = s.preferences
    /\ configSampleRate' = s.configSampleRate /\ bufferSize' = s.bufferSize
    /\ preTriggerPercent' = s.preTriggerPercent /\ sampleRate' = s.sampleRate
    /\ sampleInterval' = s.sampleInterval /\ flashHeader' = s.flashHeader
    /\ flashFileFirst' = s.flashFileFirst
    /\ duplexMode' = s.duplexMode /\ uartSerial' = s.uartSerial
    /\ uartRxBuffer' = s.uartRxBuffer /\ lastUartActivity' = s.lastUartActivity
    /\ halfDuplexTxMode' = s.halfDuplexTxMode /\ halfDuplexBusy' = s.halfDuplexBusy
    /\ halfDuplexTxQueue' = s.halfDuplexTxQueue
    /\ halfDuplexTxTimeout' = s.halfDuplexTxTimeout
    /\ uartLogBuffer' = s.uartLogBuffer /\ maxUartEntries' = s.maxUartEntries
    /\ useFlashStorage' = s.useFlashStorage /\ uartLogFile' = s.uartLogFile
    /\ uartLogFileExists' = s.uartLogFileExists
    /\ millis' = s.millis /\ uartFifo' = s.uartFifo

\* The counters are followed up to MaxCount, the UART log file up to
\* MaxUartLog entries, the UART log in memory up to two entries above its
\* capacity and the RX line buffer up to MaxLine characters.
Bounded(s) ==
    /\ s.flashSamplesWritten <= MaxCount /\ s.streamingCount <= MaxCount
    /\ Len(s.uartLogFile) <= MaxUartLog
    /\ Len(s.uartLogBuffer) <= s.maxUartEntries + 2
    /\ Len(s.uartRxBuffer) <= MaxLine

\* The samples fed to the trigger since startCapture (the first MaxFed of
\* them), the tick at which the trigger armed (0: none of them), whether the
\* trigger configuration was left alone since startCapture, and lastState as
\* startCapture found it.
\* rec: the samples addSample was given since startCapture while they are
\* at most MaxFed (MaxFed + 1 blank entries once they are more), kept by the
\* operations that keep the recording history; base: the number of compressed records startCapture found;
\* reset: whether it found the encoder state as enableCompression leaves it.
\* stored: the entries given to addUartEntry, in call order, kept by the
\* operations that keep the UART log history.
NoSession == [fed |-> <<>>, armedAt |-> 0, untouched |-> FALSE, before |-> FALSE,
              rec |-> <<>>, base |-> 0, reset |-> FALSE, stored |-> <<>>,
              counted |-> 0]

Track(op, s) ==
    CASE op = "startCapture" ->
           [fed |-> <<>>, armedAt |-> 0, untouched |-> TRUE, before |-> lastState,
            rec |-> <<>>, base |-> 0, reset |-> FALSE, stored |-> sess.stored,
            counted |-> sess.counted]
      [] op = "process" /\ Len(s.tr.read) > 0 /\ Len(sess.fed) < MaxFed ->
           [sess EXCEPT !.fed = Append(@, s.tr.read[1]),
                        !.armedAt = IF @ = 0 /\ ~triggerArmed /\ s.triggerArmed
                                    THEN Len(sess.fed) + 1 ELSE @]
      [] op \in {"setTrigger", "disableTrigger", "configureLogic"} ->
           [sess EXCEPT !.untouched = FALSE]
      [] OTHER -> sess

\* Every copy the last operation made into the staging buffer lay inside it.
\* After a copy beyond its end the behaviour is undefined, and the run is
\* followed no further.
StagingIntact ==
    \A i \in 1..Len(last.tr.stage) : last.tr.stage[i] + SIZEOF_SAMPLE <= FLASH_CHUNK_SIZE

\* Operations that change how or where samples are stored.
StorageOps == {"setup", "setBufferMode", "enableFlashBuffering", "enableCompression",
               "enableStreamingMode", "stopStreaming", "clearBuffer",
               "clearFlashLogicData", "clearCompressedBuffer", "enableDualMode"}

\* The recording history of a session of more than MaxFed samples.
TooManyToKeep == [i \in 1..(MaxFed + 1) |-> [timestamp |-> 0, data |-> FALSE]]

\* Track, with the recording history.
TrackRec(op, s) ==
    LET t == Track(op, s)
    IN CASE op = "startCapture" ->
              [t EXCEPT !.base = Len(s.compressed),
                        !.reset = /\ s.runLength = 0 /\ s.lastTimestamp = 0
                                  /\ s.lastData = FALSE]
         [] op = "process" ->
              [t EXCEPT !.rec = IF Len(@ \o s.tr.smp) <= MaxFed THEN @ \o s.tr.smp
                                ELSE TooManyToKeep]
         [] op \in StorageOps -> [t EXCEPT !.untouched = FALSE]
         [] OTHER -> t

\* One call of a public operation: s is the object when the call returns and
\* h the session history after it.
Step(op, s, h) ==
    /\ pc = "running"
    /\ StagingIntact
    /\ \E after \in {s} :
          /\ Bounded(after)
          /\ Set(after)
          /\ last' = [op |-> op, tr |-> after.tr]
          /\ nRec' = Min(BUFFER_SIZE,
                         (IF after.tr.clr THEN 0 ELSE nRec)
                         + (IF bufferMode = "BUFFER_RAM" THEN Len(after.tr.add) ELSE 0))
    /\ pc' = pc
    /\ sess' = h

\* history says whether the session history is kept.
Call(op, s, history) == Step(op, s, IF history THEN Track(op, s) ELSE sess)

\* A call that keeps the session history and the recording history.
CallRec(op, s) == Step(op, s, TrackRec(op, s))

\* A call that counts the samples addSample hands to compressSample since
\* compressedCount was last set to 0 (clearCompressedBuffer and
\* clearFlashLogicData are the operations that do so).
CallCounted(op, s) ==
    Step(op, s,
         [sess EXCEPT !.counted =
             IF op \in {"clearCompressedBuffer", "clearFlashLogicData"} THEN 0
             ELSE @ + (IF s.bufferMode = "BUFFER_COMPRESSED" THEN Len(s.tr.smp) ELSE 0)])

Init ==
    /\ pc = "constructed"
    /\ writeIndex = Constructed.writeIndex /\ readIndex = Constructed.readIndex
    /\ buffer = Constructed.buffer /\ capturing = Constructed.capturing
    /\ triggerMode = Constructed.triggerMode /\ lastState = Constructed.lastState
    /\ triggerArmed = Constructed.triggerArmed /\ bufferMode = Constructed.bufferMode
    /\ maxFlashSamples = Constructed.maxFlashSamples /\ compression = Constructed.compression
    /\ gpioPin = Constructed.gpioPin /\ rxPin = Constructed.rxPin
    /\ flashSamplesWritten = Constructed.flashSamplesWritten /\ flashWritePosition = Constructed.flashWritePosition
    /\ bufferPosition = Constructed.bufferPosition /\ flashWriteBuffer = Constructed.flashWriteBuffer
    /\ flashDataFile = Constructed.flashDataFile /\ flashFileExists = Constructed.flashFileExists
    /\ flashFileSize = Constructed.flashFileSize /\ flashStorageActive = Constructed.flashStorageActive
    /\ compressedBuffer = Constructed.compressedBuffer /\ compressed = Constructed.compressed
    /\ lastTimestamp = Constructed.lastTimestamp /\ lastData = Constructed.lastData
    /\ runLength = Constructed.runLength /\ streamingActive = Constructed.streamingActive
    /\ streamingCount = Constructed.streamingCount /\ dualModeActive = Constructed.dualModeActive
    /\ uartMonitoringEnabled = Constructed.uartMonitoringEnabled /\ serialLogBuffer = Constructed.serialLogBuffer
    /\ preferences = Constructed.preferences
    /\ configSampleRate = Constructed.configSampleRate /\ bufferSize = Constructed.bufferSize
    /\ preTriggerPercent = Constructed.preTriggerPercent /\ sampleRate = Constructed.sampleRate
    /\ sampleInterval = Constructed.sampleInterval /\ flashHeader = Constructed.flashHeader
    /\ flashFileFirst = Constructed.flashFileFirst
    /\ duplexMode = Constructed.duplexMode /\ uartSerial = Constructed.uartSerial
    /\ uartRxBuffer = Constructed.uartRxBuffer
    /\ lastUartActivity = Constructed.lastUartActivity
    /\ halfDuplexTxMode = Constructed.halfDuplexTxMode
    /\ halfDuplexBusy = Constructed.halfDuplexBusy
    /\ halfDuplexTxQueue = Constructed.halfDuplexTxQueue
    /\ halfDuplexTxTimeout = Constructed.halfDuplexTxTimeout
    /\ uartLogBuffer = Constructed.uartLogBuffer
    /\ maxUartEntries = Constructed.maxUartEntries
    /\ useFlashStorage = Constructed.useFlashStorage
    /\ uartLogFile = Constructed.uartLogFile
    /\ uartLogFileExists = Constructed.uartLogFileExists
    /\ millis = Constructed.millis /\ uartFifo = Constructed.uartFifo
    /\ last = [op |-> "construct", tr |-> NoTrace]
    /\ sess = NoSession
    /\ nRec = 0

\* values a request or the preferences store can carry
PinArgs == Pins \cup {49}
TriggerArgs == 0..6
MaxSamplesArgs == {0, FLASH_BUFFER_SIZE, MAX_FLASH_BUFFER_SIZE + 1}
\* micros() values given to recorded samples
Times == {0}

\* ----- operations, each over the inputs it is given ------------------------
\* setup(): E the outcomes of the file system and malloc, P and R the stored
\* capture and UART pins, T the stored trigger modes.
\* F: the outcomes of formatting the file system after a failed mount.
SetupFormatOver(E, P, R, T, F) ==
    /\ pc = "constructed"
    /\ \E mounted \in BOOLEAN, formatted \in F, env \in E,
          storedPin \in P, storedTrigger \in T, storedRx \in R :
          LET s == setup(Cur, mounted, formatted, env, storedPin, storedTrigger, storedRx)
          IN /\ Set(s)
             /\ last' = [op |-> "setup", tr |-> s.tr]
    /\ pc' = "running"
    /\ UNCHANGED <<sess, nRec>>

\* setup() on a file system that formats when it does not mount.
SetupOver(E, P, R, T) == SetupFormatOver(E, P, R, T, {TRUE})

\* process(): L the pin levels, E the outcomes of opening the backing file.
ProcessOver(L, E, history) ==
    \E elapsed \in BOOLEAN, currentState \in L, timestamp \in Times, env \in E :
        Call("process", process(Cur, elapsed, currentState, timestamp, env), history)

StartCaptureOp(history) == Call("startCapture", startCapture(Cur), history)

StopCaptureOver(E) == \E env \in E : Call("stopCapture", stopCapture(Cur, env), FALSE)

ClearBufferOp == Call("clearBuffer", clearBuffer(Cur), FALSE)

SetTriggerOver(T, history) ==
    \E mode \in T : Call("setTrigger", setTrigger(Cur, mode), history)

DisableTriggerOp(history) == Call("disableTrigger", disableTrigger(Cur), history)

\* The /api/logic/config request without sample_rate, buffer_size and
\* pre_trigger_percent: the handler passes its defaults.
ConfigureLogicOver(P, T, history) ==
    \E gpioPinArg \in P, triggerModeArg \in T :
        Call("configureLogic",
             configureLogic(Cur, DEFAULT_SAMPLE_RATE, gpioPinArg, triggerModeArg,
                            CONFIG_BUFFER_SIZE, 10), history)

\* configureLogic over rates R, pins P, trigger modes T, buffer sizes B and
\* pre-trigger percentages Q.
ConfigureLogicArgsOver(R, P, T, B, Q) ==
    \E sampleRateArg \in R, gpioPinArg \in P, triggerModeArg \in T,
       bufferSizeArg \in B, preTriggerPercentArg \in Q :
        Call("configureLogic",
             configureLogic(Cur, sampleRateArg, gpioPinArg, triggerModeArg,
                            bufferSizeArg, preTriggerPercentArg), FALSE)

SetBufferModeOver(M, E) ==
    \E mode \in M, env \in E : Call("setBufferMode", setBufferMode(Cur, mode, env), FALSE)

EnableFlashBufferingOver(M, N, E) ==
    \E mode \in M, maxSamples \in N, env \in E :
        Call("enableFlashBuffering", enableFlashBuffering(Cur, mode, maxSamples, env), FALSE)

EnableCompressionOver(C) ==
    \E type \in C : Call("enableCompression", enableCompression(Cur, type), FALSE)

EnableStreamingModeOver(B, E) ==
    \E enable \in B, env \in E :
        Call("enableStreamingMode", enableStreamingMode(Cur, enable, env), FALSE)

StopStreamingOver(E) == \E env \in E : Call("stopStreaming", stopStreaming(Cur, env), FALSE)

ClearFlashLogicDataOp == Call("clearFlashLogicData", clearFlashLogicData(Cur), FALSE)

ClearCompressedBufferOp == Call("clearCompressedBuffer", clearCompressedBuffer(Cur), FALSE)

EnableDualModeOver(B) ==
    \E enable \in B : Call("enableDualMode", enableDualMode(Cur, enable), FALSE)

\* configureUart over RX pins R and duplex modes D.
ConfigureUartModeOver(R, D) ==
    \E rxPinArg \in R, duplexModeArg \in D :
        Call("configureUart", configureUart(Cur, rxPinArg, duplexModeArg), FALSE)

ConfigureUartOver(R) == ConfigureUartModeOver(R, {"UART_FULL_DUPLEX"})

EnableUartMonitoringOp == Call("enableUartMonitoring", enableUartMonitoring(Cur), FALSE)

DisableUartMonitoringOp == Call("disableUartMonitoring", disableUartMonitoring(Cur), FALSE)

\* The /api/uart/send request with a command of C: the handler refuses an
\* empty command, the result of the call decides its status code.
SendHalfDuplexCommandOver(C) ==
    \E command \in C :
        Call("sendHalfDuplexCommand", sendHalfDuplexCommand(Cur, command), FALSE)

\* addUartEntry, keeping the UART log history.
AddUartEntryStoredOver(D, R, E) ==
    \E data \in D, isRx \in R, env \in E :
        LET s == addUartEntry(Cur, data, isRx, env)
        IN /\ Len(sess.stored) < MaxStored
           /\ Step("addUartEntry", s, [sess EXCEPT !.stored = @ \o s.tr.uart])

AddUartEntryOver(D, R, E) ==
    \E data \in D, isRx \in R, env \in E :
        Call("addUartEntry", addUartEntry(Cur, data, isRx, env), FALSE)

SetUartBufferSizeOver(N) ==
    \E maxEntries \in N :
        Call("setUartBufferSize", setUartBufferSize(Cur, maxEntries), FALSE)

CompactUartLogsOp == Call("compactUartLogs", compactUartLogs(Cur), FALSE)

ClearUartLogsOp == Call("clearUartLogs", clearUartLogs(Cur), FALSE)

EnableFlashStorageOver(B, E) ==
    \E enable \in B, mounted \in BOOLEAN, formatted \in BOOLEAN, env \in E :
        LET s == enableFlashStorage(Cur, enable, mounted, formatted, env)
        IN /\ \A i \in 1..Len(s.uartLogBuffer) :
                  Len(s.uartLogBuffer[i].data) <= MaxEntryLength
           /\ Call("enableFlashStorage", s, FALSE)

\* A byte of B arrives in the receiver of Serial2, which is attached to the
\* RX pin while uartSerial is begun and the engine is not transmitting.
ReceiveOver(B) ==
    /\ uartSerial /\ ~halfDuplexTxMode /\ Len(uartFifo) < MaxFifo
    /\ \E c \in B : Step("receive", [Cur EXCEPT !.uartFifo = Append(@, c)], sess)

\* millis() advances by a step of D.
ClockOver(D) ==
    \E d \in D :
        /\ millis + d <= MaxMillis
        /\ Step("clock", [Cur EXCEPT !.millis = @ + d], sess)

ClearLogsOp == Call("clearLogs", clearLogs(Cur), FALSE)

\* loop() and the request handlers run in different tasks (the handlers are
\* callbacks of the asynchronous web server) and the analyzer has no lock:
\* a tick of process() is followed in two steps, and a handler can run
\* between them.  pc is "sampling" while the tick has passed its test of
\* capturing and has not yet sampled.
ProcessEntryOver(E) ==
    /\ pc = "running" /\ StagingIntact
    /\ reachesSampling(Cur)
    /\ \E env \in E :
          LET s == processEntry(Cur, env)
          IN /\ s.capturing /\ Bounded(s)
             /\ Set(s)
             /\ last' = [op |-> "processEntry", tr |-> s.tr]
    /\ pc' = "sampling"
    /\ UNCHANGED <<sess, nRec>>

ProcessSamplingOver(L, E) ==
    /\ pc = "sampling" /\ StagingIntact
    /\ \E elapsed \in BOOLEAN, currentState \in L, timestamp \in Times, env \in E :
          LET s == processSampling(Cur, elapsed, currentState, timestamp, env)
          IN /\ Bounded(s)
             /\ Set(s)
             /\ last' = [op |-> "process", tr |-> s.tr]
    /\ pc' = "running"
    /\ UNCHANGED <<sess, nRec>>

\* The /api/stop handler running while the tick is between its two parts.
StopCaptureInTickOver(E) ==
    /\ pc = "sampling" /\ StagingIntact
    /\ \E env \in E :
          LET s == stopCapture(Cur, env)
          IN /\ Bounded(s)
             /\ Set(s)
             /\ last' = [op |-> "stopCapture", tr |-> s.tr]
    /\ UNCHANGED <<pc, sess, nRec>>

\* process() called with the sample interval elapsed.
SampleTickOver(L, E) ==
    \E currentState \in L, timestamp \in Times, env \in E :
        Call("process", process(Cur, TRUE, currentState, timestamp, env), FALSE)

\* The same operations, keeping the recording history. T: the micros()
\* values the ticks read.
ProcessAtOver(L, T, E) ==
    \E elapsed \in BOOLEAN, currentState \in L, timestamp \in T, env \in E :
        CallRec("process", process(Cur, elapsed, currentState, timestamp, env))

StartCaptureRecOp == CallRec("startCapture", startCapture(Cur))

StopCaptureRecOver(E) == \E env \in E : CallRec("stopCapture", stopCapture(Cur, env))

ClearBufferRecOp == CallRec("clearBuffer", clearBuffer(Cur))

SetBufferModeRecOver(M, E) ==
    \E mode \in M, env \in E : CallRec("setBufferMode", setBufferMode(Cur, mode, env))

EnableCompressionRecOver(C) ==
    \E type \in C : CallRec("enableCompression", enableCompression(Cur, type))

ClearCompressedBufferRecOp == CallRec("clearCompressedBuffer", clearCompressedBuffer(Cur))

\* The tail of the /api/logic/config request for buffer_mode = 3 and a
\* compression C: setBufferMode(BUFFER_COMPRESSED), then enableCompression.
SelectCompressionOver(C, E) ==
    \E type \in C, env \in E :
        CallRec("enableCompression",
                enableCompression(setBufferMode(Cur, "BUFFER_COMPRESSED", env), type))

\* ----- capture in RAM: setup without a file system, capture control, ------
\* ----- trigger reconfiguration and ticks on both paths ---------------------
\* LittleFS does not mount, so the flash members stay as constructed.
NoFlashEnv == [OkEnv EXCEPT !.mount = FALSE]

NextCapture ==
    \/ SetupOver({NoFlashEnv}, {CHANNEL_0_PIN}, {CHANNEL_0_PIN}, 0..5)
    \/ ProcessOver(BOOLEAN, {OkEnv}, FALSE)
    \/ StartCaptureOp(FALSE)
    \/ StopCaptureOver({OkEnv})
    \/ SetBufferModeOver({"BUFFER_RAM"}, {NoFlashEnv})
    \/ EnableDualModeOver({TRUE})
    \/ EnableUartMonitoringOp
    \/ SetTriggerOver(TriggerModes, FALSE)

SpecCapture == Init /\ [][NextCapture]_vars

\* ----- auto-stop: RAM, flash and streaming storage, ticks on both paths ----
NextAutoStop ==
    \/ SetupOver({OkEnv}, {CHANNEL_0_PIN}, {CHANNEL_0_PIN}, {0})
    \/ ProcessOver({TRUE}, {OkEnv}, FALSE)
    \/ StartCaptureOp(FALSE)
    \/ SetBufferModeOver({"BUFFER_RAM", "BUFFER_FLASH", "BUFFER_STREAMING"}, {OkEnv})
    \/ EnableDualModeOver({TRUE})
    \/ EnableUartMonitoringOp

SpecAutoStop == Init /\ [][NextAutoStop]_vars

\* ----- sessions on flash, streaming and compressed storage ------------------
NextStore ==
    \/ SetupOver({OkEnv}, {CHANNEL_0_PIN}, {CHANNEL_0_PIN}, {0})
    \/ ProcessOver(BOOLEAN, {OkEnv}, FALSE)
    \/ StartCaptureOp(FALSE)
    \/ StopCaptureOver({OkEnv})
    \/ SetBufferModeOver({"BUFFER_FLASH", "BUFFER_STREAMING", "BUFFER_COMPRESSED"}, {OkEnv})

SpecStore == Init /\ [][NextStore]_vars

\* ----- trigger sessions: the samples fed since startCapture are kept --------
NextSession ==
    \/ SetupOver({NoFlashEnv}, {CHANNEL_0_PIN}, {CHANNEL_0_PIN}, 0..5)
    \/ ProcessOver(BOOLEAN, {OkEnv}, TRUE)
    \/ StartCaptureOp(TRUE)
    \/ SetTriggerOver(TriggerModes, TRUE)
    \/ EnableDualModeOver({TRUE})
    \/ EnableUartMonitoringOp

SpecSession == Init /\ [][NextSession]_vars

\* ----- properties -----------------------------------------------------------
\* C1: in RAM mode the ring usage never exceeds BUFFER_SIZE - 1, and after n
\* samples recorded since the last clear (n < BUFFER_SIZE) the usage is n.
C1_RingUsage ==
    bufferMode = "BUFFER_RAM" =>
        /\ getBufferUsage(Cur) <= BUFFER_SIZE - 1
        /\ (nRec < BUFFER_SIZE => getBufferUsage(Cur) = nRec)

\* The ring has been filled to BUFFER_SIZE - 1 samples by a tick.
C1_Witness ==
    /\ bufferMode = "BUFFER_RAM"
    /\ last.op = "process" /\ Len(last.tr.add) = 1
    /\ nRec = BUFFER_SIZE - 1
    /\ getBufferUsage(Cur) = BUFFER_SIZE - 1

\* C2: in RAM, FLASH and STREAMING mode a tick that recorded a sample and
\* leaves the buffer full ends with capturing false and has appended the log
\* entry about the full buffer, on the normal and on the dual-mode path.
C2_FullMessages ==
    {"Buffer full - auto-stopping capture",
     "Dual-mode Logic buffer full - stopping capture"}

C2_AutoStop ==
    (/\ last.op = "process" /\ Len(last.tr.add) = 1
     /\ bufferMode \in {"BUFFER_RAM", "BUFFER_FLASH", "BUFFER_STREAMING"}
     /\ isBufferFull(Cur))
    => /\ ~capturing
       /\ \E i \in 1..Len(last.tr.log) : last.tr.log[i] \in C2_FullMessages

\* A dual-mode tick in streaming mode has recorded the sample that filled the
\* buffer and stopped the capture.
C2_Witness ==
    /\ last.op = "process" /\ Len(last.tr.add) = 1
    /\ bufferMode = "BUFFER_STREAMING"
    /\ dualModeActive /\ uartMonitoringEnabled
    /\ isBufferFull(Cur) /\ ~capturing
    /\ last.tr.log = <<"Dual-mode Logic buffer full - stopping capture">>

\* C3: in both flash-backed modes, when stopCapture returns and the backing
\* file can be opened, the staging buffer is empty.
C3_StopFlushesStaging ==
    (last.op = "stopCapture" /\ IsFlashBacked(bufferMode)) => bufferPosition = 0

\* C4: after startCapture returns the usage is zero and nothing of an earlier
\* session is stored in the storage of the current buffer mode: ring indices,
\* flash counters and backing file, compressed records.
C4_StartClearsAll ==
    last.op = "startCapture" =>
        /\ getBufferUsage(Cur) = 0
        /\ writeIndex = 0 /\ readIndex = 0
        /\ IsFlashBacked(bufferMode) =>
              /\ flashSamplesWritten = 0 /\ flashWritePosition = 0
              /\ bufferPosition = 0 /\ ~flashFileExists
        /\ bufferMode = "BUFFER_COMPRESSED" => compressedCount(Cur) = 0

\* C5: checkTrigger follows the table NONE -> true, RISING -> !last and cur,
\* FALLING -> last and !cur, BOTH_EDGES -> last # cur, HIGH -> cur,
\* LOW -> !cur, for the mode and lastState of every reachable state and for
\* every call a tick made, and the call changes no member.
C5_Expected(mode, last_state, currentState) ==
    IF mode = "TRIGGER_NONE" THEN TRUE
    ELSE IF mode = "TRIGGER_RISING_EDGE" THEN currentState /\ ~last_state
    ELSE IF mode = "TRIGGER_FALLING_EDGE" THEN last_state /\ ~currentState
    ELSE IF mode = "TRIGGER_BOTH_EDGES" THEN ~(last_state <=> currentState)
    ELSE IF mode = "TRIGGER_HIGH_LEVEL" THEN currentState
    ELSE ~currentState

C5_CheckTrigger ==
    /\ triggerMode \in TriggerModes
    /\ \A c \in BOOLEAN :
          /\ checkTrigger(triggerMode, lastState, c)
                = C5_Expected(triggerMode, lastState, c)
          /\ [evalTrigger(Cur, c) EXCEPT !.tr = Cur.tr] = Cur
    /\ \A i \in 1..Len(last.tr.eval) :
          last.tr.eval[i].res = C5_Expected(last.tr.eval[i].mode,
                                            last.tr.eval[i].last, last.tr.eval[i].cur)

\* A tick has evaluated a rising-edge trigger on a low-to-high change.
C5_Witness ==
    /\ last.op = "process" /\ Len(last.tr.eval) = 1
    /\ last.tr.eval[1] = [mode |-> "TRIGGER_RISING_EDGE", last |-> FALSE,
                          cur |-> TRUE, res |-> TRUE]
    /\ triggerArmed

\* C6: once armed, the trigger stays armed through every operation other
\* than startCapture.
C6_ArmedStaysArmed ==
    [][(triggerArmed /\ last'.op # "startCapture") => triggerArmed']_vars

\* C7: startCapture arms the trigger iff the mode is NONE; a tick of a running
\* capture that evaluates the disarmed trigger without firing leaves the
\* stored samples, the usage, the mode and the armed flag as they were and
\* sets lastState to the level it read.
C7_Stored ==
    <<writeIndex, readIndex, buffer, flashSamplesWritten, flashWritePosition,
      bufferPosition, flashDataFile, flashFileExists, flashFileSize, compressed,
      runLength, lastData, lastTimestamp, streamingCount, getBufferUsage(Cur)>>

C7_ArmAndDiscard ==
    [][/\ last'.op = "startCapture" =>
             /\ triggerMode' = triggerMode
             /\ triggerArmed' = (triggerMode = "TRIGGER_NONE")
       /\ (/\ capturing /\ ~triggerArmed
           /\ last'.op = "process" /\ Len(last'.tr.eval) = 1
           /\ ~last'.tr.eval[1].res)
          => /\ C7_Stored' = C7_Stored
             /\ triggerMode' = triggerMode /\ triggerArmed' = triggerArmed
             /\ lastState' = last'.tr.read[1]]_vars

\* A tick of a running capture has discarded a sample that did not fire the
\* trigger, and lastState has changed to that sample.
C7_Witness ==
    /\ last.op = "process" /\ Len(last.tr.eval) = 1 /\ ~last.tr.eval[1].res
    /\ capturing /\ ~triggerArmed /\ bufferMode = "BUFFER_RAM"
    /\ Len(last.tr.add) = 0
    /\ lastState = last.tr.read[1] /\ lastState # last.tr.eval[1].last

\* C8: a sampling tick that ends with the trigger armed has handed the sample
\* it read to addSample, the sample that fired the trigger included.
C8_ArmedTickRecords ==
    (last.op = "process" /\ Len(last.tr.read) = 1 /\ triggerArmed)
    => last.tr.add = last.tr.read

\* C9: with RISING, the samples false, false, true fed on the first three
\* sampling ticks after startCapture arm the trigger on the third tick and on
\* neither of the first two.
C9_RisingArmsOnThird ==
    (sess.untouched /\ triggerMode = "TRIGGER_RISING_EDGE")
    => /\ (Len(sess.fed) >= 1 /\ ~sess.fed[1]) => sess.armedAt # 1
       /\ (Len(sess.fed) >= 2 /\ ~sess.fed[1] /\ ~sess.fed[2]) => sess.armedAt \notin {1, 2}
       /\ (Len(sess.fed) = 3 /\ sess.fed = <<FALSE, FALSE, TRUE>>)
             => (sess.armedAt = 3 /\ triggerArmed)

\* false, false, true have been fed to a capture started with lastState true.
C9_Witness ==
    /\ sess.untouched /\ triggerMode = "TRIGGER_RISING_EDGE"
    /\ sess.before
    /\ sess.fed = <<FALSE, FALSE, TRUE>>
    /\ sess.armedAt = 3 /\ triggerArmed /\ capturing

\* C10: in the edge modes the first sample fed after startCapture never arms
\* the trigger.
C10_FirstSampleNeverArms ==
    (/\ sess.untouched
     /\ triggerMode \in {"TRIGGER_RISING_EDGE", "TRIGGER_FALLING_EDGE",
                         "TRIGGER_BOTH_EDGES"})
    => sess.armedAt # 1

\* ----- configuration requests ------------------------------------------------
NextConfig ==
    \/ SetupOver({NoFlashEnv}, {CHANNEL_0_PIN}, {CHANNEL_0_PIN}, {0})
    \* Arguments below, at, between and above the limits.
    \/ ConfigureLogicArgsOver({9, 10, 1000, 40000001}, {CHANNEL_0_PIN, 48, 49}, {0, 5, 6},
                              {1023, 1024, 262144, 262145}, {0, 90, 91})
    \/ StartCaptureOp(FALSE)
    \/ StopCaptureOver({OkEnv})

SpecConfig == Init /\ [][NextConfig]_vars

\* C11: a configuration call made while a capture is active and still active
\* afterwards leaves sample rate, pin, trigger mode, buffer mode, capacity and
\* compression unchanged.
C11_Config ==
    <<sampleRate, configSampleRate, gpioPin, triggerMode, bufferMode, bufferSize,
      maxFlashSamples, compression>>

C11_NoReconfigureWhileCapturing ==
    [][(/\ capturing /\ capturing'
        /\ last'.op \in {"configureLogic", "setBufferMode", "enableFlashBuffering",
                         "enableCompression"})
       => C11_Config' = C11_Config]_vars

\* C12: after configureLogic the stored configuration is within bounds,
\* in-range arguments are stored unchanged, an out-of-range rate, buffer size
\* or pre-trigger percentage is replaced by the nearest bound, and
\* sampleInterval is 1000000 div sampleRate.
C12_Nearest(x, lo, hi) == IF x < lo THEN lo ELSE IF x > hi THEN hi ELSE x

C12_ModeNames ==
    <<"TRIGGER_NONE", "TRIGGER_RISING_EDGE", "TRIGGER_FALLING_EDGE",
      "TRIGGER_BOTH_EDGES", "TRIGGER_HIGH_LEVEL", "TRIGGER_LOW_LEVEL">>

C12_ConfigClamped ==
    last.op = "configureLogic" =>
        LET a == last.tr.args
        IN /\ Len(a) = 5
           /\ configSampleRate >= 10 /\ configSampleRate <= 40000000
           /\ gpioPin <= 48
           /\ bufferSize >= 1024 /\ bufferSize <= 262144
           /\ preTriggerPercent <= 90
           /\ \E i \in 1..6 : triggerMode = C12_ModeNames[i]
           /\ configSampleRate = C12_Nearest(a[1], 10, 40000000)
           /\ sampleRate = configSampleRate
           /\ (a[2] <= 48 => gpioPin = a[2])
           /\ (a[3] \in 0..5 => triggerMode = C12_ModeNames[a[3] + 1])
           /\ bufferSize = C12_Nearest(a[4], 1024, 262144)
           /\ preTriggerPercent = C12_Nearest(a[5], 0, 90)
           /\ sampleInterval = 1000000 \div sampleRate

\* configureLogic has been called with every argument above its limit.
C12_Witness ==
    /\ last.op = "configureLogic"
    /\ last.tr.args = <<40000001, 49, 6, 262145, 91>>
    /\ sampleRate = 40000000 /\ sampleInterval = 0 /\ gpioPin = CHANNEL_0_PIN
    /\ triggerMode = "TRIGGER_NONE" /\ bufferSize = 262144 /\ preTriggerPercent = 90

\* ----- flash staging with a backing file that may fail to open ---------------
NextStaging ==
    \/ SetupOver({OkEnv}, {CHANNEL_0_PIN}, {CHANNEL_0_PIN}, {0})
    \/ EnableFlashBufferingOver({"BUFFER_FLASH"}, {MAX_FLASH_BUFFER_SIZE}, {OkEnv})
    \/ StartCaptureOp(FALSE)
    \/ ProcessOver({TRUE}, OpenEnvs, FALSE)
    \/ StopCaptureOver(OpenEnvs)

SpecStaging == Init /\ [][NextStaging]_vars

\* C13: every copy of a sample into the staging buffer starts at a position
\* with bufferPosition + sizeof(Sample) <= FLASH_CHUNK_SIZE, also after the
\* backing file failed to open.
C13_StagingInBounds ==
    \A i \in 1..Len(last.tr.stage) : last.tr.stage[i] + SIZEOF_SAMPLE <= FLASH_CHUNK_SIZE

\* ----- exports of a capture ----------------------------------------------
NextExport ==
    \/ SetupOver({OkEnv}, {CHANNEL_0_PIN}, {CHANNEL_0_PIN}, {0})
    \/ SetBufferModeRecOver({"BUFFER_RAM"}, {OkEnv})
    \/ StartCaptureRecOp
    \* a high level read at micros() = 1 or a low level read at micros() = 2
    \/ ProcessAtOver({TRUE}, {1}, {OkEnv})
    \/ ProcessAtOver({FALSE}, {2}, {OkEnv})
    \/ StopCaptureRecOver({OkEnv})

SpecExport == Init /\ [][NextExport]_vars

\* A recorded sample as a JSON entry and as a CSV row
C14_Entry(sample) ==
    [timestamp |-> sample.timestamp, gpio1 |-> sample.data,
     state |-> IF sample.data THEN "HIGH" ELSE "LOW"]

C14_Row(i, sample) ==
    <<i, sample.timestamp, IF sample.data THEN 1 ELSE 0,
      IF sample.data THEN "HIGH" ELSE "LOW">>

\* C14: in RAM mode with trigger NONE, after startCapture(), n sampling ticks
\* and stopCapture(), getBufferUsage() is n and the JSON and CSV exports
\* report n samples and list exactly the n recorded samples, in recording
\* order, each with its timestamp and value. Stated for every n up to
\* BUFFER_SIZE - 1, the most a session records.
C14_ExportsListRecorded ==
    LET n == Len(sess.rec)
    IN (/\ bufferMode = "BUFFER_RAM" /\ triggerMode = "TRIGGER_NONE"
        /\ sess.untouched /\ last.op = "stopCapture"
        /\ n <= MaxFed /\ n <= BUFFER_SIZE - 1)
       => /\ getBufferUsage(Cur) = n
          /\ getDataAsJSON(Cur).sample_count = n
          /\ getDataAsJSON(Cur).samples = [i \in 1..n |-> C14_Entry(sess.rec[i])]
          /\ getDataAsCSV(Cur).usage = n
          /\ getDataAsCSV(Cur).rows = [i \in 1..n |-> C14_Row(i, sess.rec[i])]

C14_Witness ==
    /\ bufferMode = "BUFFER_RAM" /\ triggerMode = "TRIGGER_NONE"
    /\ sess.untouched /\ last.op = "stopCapture"
    /\ sess.rec = <<[timestamp |-> 2, data |-> FALSE], [timestamp |-> 1, data |-> TRUE]>>
    /\ getDataAsJSON(Cur).sample_count = 2

\* ----- exports of a flash capture ------------------------------------------
NextFlashExport ==
    \/ SetupOver({OkEnv}, {CHANNEL_0_PIN}, {CHANNEL_0_PIN}, {0})
    \/ SetBufferModeRecOver({"BUFFER_FLASH"}, {OkEnv})
    \/ StartCaptureRecOp
    \/ ProcessAtOver({TRUE}, {1}, {OkEnv})
    \/ ProcessAtOver({FALSE}, {2}, {OkEnv})
    \/ StopCaptureRecOver({OkEnv})

SpecFlashExport == Init /\ [][NextFlashExport]_vars

\* C15: in FLASH mode the JSON export after a capture lists the samples that
\* were written to the backing file, in order: the exported sample list is
\* the sequence of samples recorded in the session.
C15_FlashExportListsRecorded ==
    LET n == Len(sess.rec)
    IN (/\ bufferMode = "BUFFER_FLASH" /\ sess.untouched /\ last.op = "stopCapture"
        /\ n <= MaxFed /\ flashSamplesWritten = n
        /\ flashFileSize = n * SIZEOF_SAMPLE)
       => getDataAsJSON(Cur).samples = [i \in 1..n |-> C14_Entry(sess.rec[i])]

\* C16: the first bytes of a non-empty capture file are the header with
\* magic 0x4C4F4749 and version 1, written before any sample bytes.
C16_HeaderLeadsFile ==
    flashFileSize > 0 => /\ flashFileFirst = "header"
                         /\ flashHeader = [magic |-> FLASH_MAGIC, version |-> FLASH_VERSION]

\* ----- pure RLE compression ------------------------------------------------
NextRle ==
    \/ SetupOver({OkEnv}, {CHANNEL_0_PIN}, {CHANNEL_0_PIN}, {0})
    \/ SelectCompressionOver({"COMPRESS_RLE"}, {OkEnv})
    \/ StartCaptureRecOp
    \/ ProcessAtOver({TRUE}, {1}, {OkEnv})
    \/ ProcessAtOver({FALSE}, {2}, {OkEnv})
    \/ StopCaptureRecOver({OkEnv})

SpecRle == Init /\ [][NextRle]_vars

\* The maximal runs of equal consecutive values of a sample sequence, each
\* with its length.
RECURSIVE C17_Runs(_)
C17_Runs(seq) ==
    IF seq = <<>> THEN <<>>
    ELSE LET n == Len(seq)
             init == C17_Runs(SubSeq(seq, 1, n - 1))
         IN IF n > 1 /\ seq[n - 1].data = seq[n].data
            THEN [init EXCEPT ![Len(init)].count = @ + 1]
            ELSE Append(init, [count |-> 1, data |-> seq[n].data])

\* C17: under pure RLE the samples of a session yield exactly one RLE record
\* per maximal run of equal consecutive samples, with count the run length.
C17_RleOneRecordPerRun ==
    LET n == Len(sess.rec)
    IN (/\ bufferMode = "BUFFER_COMPRESSED" /\ compression = "COMPRESS_RLE"
        /\ compressedBuffer /\ sess.untouched /\ sess.base = 0
        /\ last.op = "stopCapture"
        /\ n <= MaxFed /\ n <= COMPRESSED_CAPACITY)
       => /\ Len(compressed) = Len(C17_Runs(sess.rec))
          /\ \A i \in 1..Len(compressed) :
                /\ compressed[i].type = "COMPRESS_RLE"
                /\ compressed[i].count = C17_Runs(sess.rec)[i].count
                /\ compressed[i].data = C17_Runs(sess.rec)[i].data

\* ----- pure Delta compression ----------------------------------------------
NextDelta ==
    \/ SetupOver({OkEnv}, {CHANNEL_0_PIN}, {CHANNEL_0_PIN}, {0})
    \/ SelectCompressionOver({"COMPRESS_DELTA"}, {OkEnv})
    \/ StartCaptureRecOp
    \/ ProcessAtOver({TRUE}, {1}, {OkEnv})
    \/ ProcessAtOver({FALSE}, {2}, {OkEnv})

SpecDelta == Init /\ [][NextDelta]_vars

\* C18: under pure Delta the n samples of a session yield exactly n DELTA
\* records, record i storing (timestamp[i] - timestamp[i-1]) mod 2^32 and the
\* value of sample i, the first record of the session storing its raw
\* timestamp. The session's records are those after the sess.base records
\* the buffer held when the session started.
C18_DeltaPerSample ==
    LET n == Len(sess.rec)
    IN (/\ bufferMode = "BUFFER_COMPRESSED" /\ compression = "COMPRESS_DELTA"
        /\ compressedBuffer /\ sess.untouched
        /\ n <= MaxFed /\ sess.base + n <= COMPRESSED_CAPACITY)
       => /\ Len(compressed) = sess.base + n
          /\ \A i \in 1..n :
                /\ compressed[sess.base + i].type = "COMPRESS_DELTA"
                /\ compressed[sess.base + i].data = sess.rec[i].data
                /\ compressed[sess.base + i].timestamp =
                       (sess.rec[i].timestamp
                        - (IF i = 1 THEN 0 ELSE sess.rec[i - 1].timestamp)) % U32

\* ----- hybrid compression, step by step -------------------------------------
NextHybrid ==
    \/ SetupOver({OkEnv}, {CHANNEL_0_PIN}, {CHANNEL_0_PIN}, {0})
    \/ SetBufferModeOver({"BUFFER_COMPRESSED"}, {OkEnv})
    \/ StartCaptureOp(FALSE)
    \/ ProcessOver(BOOLEAN, {OkEnv}, FALSE)
    \/ StopCaptureOver({OkEnv})
    \/ ClearCompressedBufferOp

SpecHybrid == Init /\ [][NextHybrid]_vars

\* What C19 says of a record: its type, its value and, for an RLE record,
\* its count.
C19_Shape(r) ==
    [type |-> r.type, data |-> r.data,
     count |-> IF r.type = "COMPRESS_RLE" THEN r.count ELSE 0]

\* The records C19 has the encoder emit for a sample of value x.
C19_Emitted(x) ==
    IF x = lastData /\ runLength < RUN_MAX THEN <<>>
    ELSE (IF runLength > 0
          THEN <<[type |-> "COMPRESS_RLE", data |-> lastData, count |-> runLength]>>
          ELSE <<>>)
         \o <<[type |-> "COMPRESS_DELTA", data |-> x, count |-> 0]>>

\* C19: under Hybrid compression a sample equal to the previous one, with the
\* run counter below its maximum, increments the counter and emits nothing;
\* any other sample emits the pending run (if the counter is > 0) as one RLE
\* record, then one DELTA record with the sample's value, and restarts the
\* counter at 1; the counter never exceeds its maximum. Emitted records are
\* stored while the compressed buffer has room.
C19_HybridStep ==
    [][/\ runLength' <= RUN_MAX
       /\ (/\ last'.op = "process" /\ Len(last'.tr.smp) = 1
           /\ bufferMode = "BUFFER_COMPRESSED" /\ compression = "COMPRESS_HYBRID"
           /\ compressedBuffer)
          => LET x == last'.tr.smp[1].data
                 before == Len(compressed)
             IN /\ runLength' = IF x = lastData /\ runLength < RUN_MAX
                                THEN runLength + 1 ELSE 1
                /\ Len(compressed') = Min(COMPRESSED_CAPACITY,
                                          before + Len(C19_Emitted(x)))
                /\ SubSeq(compressed', 1, before) = compressed
                /\ \A i \in (before + 1)..Len(compressed') :
                      C19_Shape(compressed'[i]) = C19_Emitted(x)[i - before]]_vars

C19_Witness ==
    /\ last.op = "process" /\ Len(last.tr.smp) = 1
    /\ bufferMode = "BUFFER_COMPRESSED" /\ compression = "COMPRESS_HYBRID"
    /\ Len(compressed) = 2
    /\ compressed[1].type = "COMPRESS_RLE" /\ compressed[1].count = RUN_MAX
    /\ compressed[2].type = "COMPRESS_DELTA" /\ compressed[2].data = last.tr.smp[1].data
    /\ runLength = 1

\* ----- hybrid compression, the runs of a session ----------------------------
NextHybridRuns ==
    \/ SetupOver({OkEnv}, {CHANNEL_0_PIN}, {CHANNEL_0_PIN}, {0})
    \/ SelectCompressionOver({"COMPRESS_HYBRID"}, {OkEnv})
    \/ StartCaptureRecOp
    \* low levels read at micros() = 1 and 2, a high level read at micros() = 2
    \/ ProcessAtOver({FALSE}, {1, 2}, {OkEnv})
    \/ ProcessAtOver({TRUE}, {2}, {OkEnv})

SpecHybridRuns == Init /\ [][NextHybridRuns]_vars

\* C20: every RLE record of the Hybrid encoder describes a run of the
\* session: r.count consecutive samples of value r.data, the first of them
\* sampled at r.timestamp.
C20_RleRecordStartsRun ==
    LET n == Len(sess.rec)
    IN (/\ bufferMode = "BUFFER_COMPRESSED" /\ compression = "COMPRESS_HYBRID"
        /\ compressedBuffer /\ sess.untouched /\ sess.base = 0 /\ sess.reset
        /\ n <= MaxFed)
       => \A k \in 1..Len(compressed) :
             compressed[k].type = "COMPRESS_RLE"
             => \E i \in 1..n :
                   LET j == i + compressed[k].count - 1
                   IN /\ j <= n
                      /\ sess.rec[i].timestamp = compressed[k].timestamp
                      /\ \A m \in i..j : sess.rec[m].data = compressed[k].data

\* ----- the compressed buffer at its capacity --------------------------------
NextOverflow ==
    \/ SetupOver({OkEnv}, {CHANNEL_0_PIN}, {CHANNEL_0_PIN}, {0})
    \/ SetBufferModeOver({"BUFFER_COMPRESSED"}, {OkEnv})
    \/ EnableCompressionOver({"COMPRESS_DELTA", "COMPRESS_HYBRID"})
    \/ StartCaptureOp(FALSE)
    \/ ProcessOver(BOOLEAN, {OkEnv}, FALSE)
    \/ StopCaptureOver({OkEnv})

SpecOverflow == Init /\ [][NextOverflow]_vars

\* C21: compressedCount never exceeds the capacity of the compressed buffer;
\* a tick of a capture in compressed mode that finds the buffer at capacity
\* drops what it would have stored, leaves the stored records as they are
\* and leaves the capture running.
C21_CompressedBufferBounded ==
    /\ [](compressedCount(Cur) <= COMPRESSED_CAPACITY)
    /\ [][(/\ last'.op = "process" /\ Len(last'.tr.smp) > 0
           /\ capturing /\ bufferMode = "BUFFER_COMPRESSED"
           /\ compressedCount(Cur) = COMPRESSED_CAPACITY)
          => (compressed' = compressed /\ capturing')]_vars

\* A Delta capture whose last sample differs from the last stored record:
\* the record of that sample was dropped at capacity.
C21_Witness ==
    /\ last.op = "process" /\ Len(last.tr.smp) = 1
    /\ capturing /\ bufferMode = "BUFFER_COMPRESSED" /\ compression = "COMPRESS_DELTA"
    /\ compressedBuffer /\ compressedCount(Cur) = COMPRESSED_CAPACITY
    /\ compressed[COMPRESSED_CAPACITY].data # last.tr.smp[1].data

\* ----- the compression ratio after flash and compressed captures ------------
NextRatio ==
    \/ SetupOver({OkEnv}, {CHANNEL_0_PIN}, {CHANNEL_0_PIN}, {0})
    \/ SetBufferModeOver({"BUFFER_FLASH", "BUFFER_COMPRESSED"}, {OkEnv})
    \/ StartCaptureOp(FALSE)
    \/ ProcessOver(BOOLEAN, {OkEnv}, FALSE)
    \/ StopCaptureOver({OkEnv})

SpecRatio == Init /\ [][NextRatio]_vars

\* C22: getCompressionRatio() returns a value between 0 and 100 in every
\* reachable state, and 0 when no samples have been written.
C22_RatioIsPercentage ==
    /\ getCompressionRatio(Cur) \in 0..100
    /\ flashSamplesWritten = 0 => getCompressionRatio(Cur) = 0

\* ----- the half-duplex engine ------------------------------------------------
NextHalfDuplex ==
    \/ SetupOver({OkEnv}, {CHANNEL_0_PIN}, {DEFAULT_RX_PIN}, {0})
    \/ ConfigureUartModeOver({DEFAULT_RX_PIN}, {"UART_HALF_DUPLEX"})
    \/ EnableUartMonitoringOp
    \/ DisableUartMonitoringOp
    \/ SendHalfDuplexCommandOver({<<"A">>, <<"B">>})
    \/ ClockOver({1})
    \/ ProcessOver({FALSE}, {OkEnv}, FALSE)

SpecHalfDuplex == Init /\ [][NextHalfDuplex]_vars

\* ----- the half-duplex engine on the pin of a dual-mode capture -------------
\* The capture has no staging buffer and stores nothing, so it does not end.
NextHalfDuplexDual ==
    \/ SetupOver({NoFlashEnv}, {CHANNEL_0_PIN}, {CHANNEL_0_PIN}, {0})
    \/ ConfigureUartModeOver({CHANNEL_0_PIN}, {"UART_HALF_DUPLEX"})
    \/ EnableUartMonitoringOp
    \/ EnableDualModeOver({TRUE})
    \/ StartCaptureOp(FALSE)
    \/ SendHalfDuplexCommandOver({<<"A">>})
    \/ ReceiveOver({"A"})
    \/ ClockOver({UART_RX_TIMEOUT + 1})
    \/ ProcessOver({FALSE}, {OkEnv}, FALSE)

SpecHalfDuplexDual == Init /\ [][NextHalfDuplexDual]_vars

\* C23: in half-duplex mode a sendHalfDuplexCommand call made while the
\* engine is busy returns false and leaves the outbound queue unchanged, so
\* that the rejected command is not queued for a later tick.
C23_BusySendLeavesQueue ==
    [][(/\ last'.op = "sendHalfDuplexCommand"
        /\ duplexMode = "UART_HALF_DUPLEX" /\ halfDuplexBusy)
       => (last'.tr.ret = FALSE /\ halfDuplexTxQueue' = halfDuplexTxQueue)]_vars

\* C24: in half-duplex mode a process() tick during which the engine is in
\* TX mode reads no byte from the UART and appends nothing received to the
\* RX line buffer or to the UART log, on the normal and on the dual-mode
\* path.
C24_NoReceiveInTxMode ==
    [][(/\ last'.op = "process" /\ duplexMode = "UART_HALF_DUPLEX"
        /\ halfDuplexTxMode /\ halfDuplexTxMode')
       => /\ last'.tr.rx = <<>>
          /\ uartRxBuffer' = uartRxBuffer
          /\ \A i \in 1..Len(last'.tr.uart) : last'.tr.uart[i].direction # "RX"]_vars

\* C25: a process() tick that finds the engine in TX mode returns it to RX
\* mode (halfDuplexTxMode and halfDuplexBusy false) exactly when more than
\* the TX timeout has passed since the transmission, whatever path the tick
\* takes and whether or not UART monitoring is enabled.
C25_TxModeEndsAfterTimeout ==
    [][(/\ last'.op = "process" /\ duplexMode = "UART_HALF_DUPLEX"
        /\ halfDuplexTxMode)
       => IF millis - halfDuplexTxTimeout > HALF_DUPLEX_TX_TIMEOUT
          THEN ~halfDuplexTxMode' /\ ~halfDuplexBusy'
          ELSE halfDuplexTxMode']_vars

\* ----- line framing on the normal receive path -------------------------------
NextFraming ==
    \/ SetupOver({OkEnv}, {CHANNEL_0_PIN}, {DEFAULT_RX_PIN}, {0})
    \/ EnableUartMonitoringOp
    \/ ReceiveOver({"A", "LF", "CR"})
    \/ ProcessOver({FALSE}, {OkEnv}, FALSE)

SpecFraming == Init /\ [][NextFraming]_vars

RECURSIVE C26_Frames(_, _)
\* The framing C26 describes, for the bytes b that follow a partial line:
\* the runs closed by a terminator, in order, and the run left open.
C26_Frames(line, b) ==
    IF b = <<>> THEN [closed |-> <<>>, open |-> line]
    ELSE IF Head(b) \in Terminators
    THEN LET f == C26_Frames(<<>>, Tail(b))
         IN [closed |-> (IF line = <<>> THEN <<>> ELSE <<line>>) \o f.closed,
             open |-> f.open]
    ELSE C26_Frames(Append(line, Head(b)), Tail(b))

NextRxLine ==
    \/ SetupOver({OkEnv}, {CHANNEL_0_PIN}, {DEFAULT_RX_PIN}, {0})
    \/ EnableUartMonitoringOp
    \/ DisableUartMonitoringOp
    \/ ReceiveOver({"A", "SOH", "LF"})
    \/ ClockOver({UART_RX_TIMEOUT + 1})
    \/ ProcessOver({FALSE}, {OkEnv}, FALSE)

SpecRxLine == Init /\ [][NextRxLine]_vars

\* C27: the RX line buffer holds at most UART_MSG_MAX_LENGTH characters
\* after each processed byte, whatever bytes are received.
C27_LineBufferBounded == Len(uartRxBuffer) <= UART_MSG_MAX_LENGTH

\* line is the beginning of text.
C28_Begins(line, text) ==
    Len(line) <= Len(text) /\ SubSeq(text, 1, Len(line)) = line

\* C28: the bytes held in the RX line buffer are not lost by any operation:
\* an operation leaves them in the buffer, where a later tick closes the
\* line, or puts them in a UART log entry.
C28_BufferedBytesReachLog ==
    [][uartRxBuffer # <<>>
       => \/ C28_Begins(uartRxBuffer, uartRxBuffer')
          \/ \E i \in 1..Len(last'.tr.uart) :
                C28_Begins(uartRxBuffer, last'.tr.uart[i].data)]_vars

\* ----- the UART log and its capacity -----------------------------------------
NextUartLog ==
    \/ SetupFormatOver({OkEnv}, {CHANNEL_0_PIN}, {DEFAULT_RX_PIN}, {0}, BOOLEAN)
    \/ SetUartBufferSizeOver({1, 10})
    \/ EnableFlashStorageOver(BOOLEAN, AppendEnvs)
    \/ AddUartEntryOver({<<"A">>}, {TRUE}, AppendEnvs)
    \/ CompactUartLogsOp
    \/ ClearUartLogsOp

SpecUartLog == Init /\ [][NextUartLog]_vars

\* C29: with the log in memory and capacity C, an addUartEntry call that
\* brings the size to 90% of C or more compacts the log, removing exactly
\* floor(0.2 * C) oldest entries; a call that leaves the size below 90% of C
\* only adds its entry.
C29_CompactionAtNinetyPercent ==
    [][(last'.op = "addUartEntry" /\ ~useFlashStorage)
       => LET size == Len(uartLogBuffer) + 1
          IN Len(uartLogBuffer') =
                 IF 10 * size >= 9 * maxUartEntries
                 THEN size - ((2 * maxUartEntries) \div 10)
                 ELSE size]_vars

\* C30: after every addUartEntry call the log in memory holds at most
\* maxUartEntries entries, for every capacity and both storage modes.
C30_MemoryLogBounded ==
    last.tr.uart # <<>> => Len(uartLogBuffer) <= maxUartEntries

\* ----- dual mode and the two pins ----------------------------------------------
NextDualPins ==
    \/ SetupOver({NoFlashEnv}, Pins, Pins, {0})
    \/ ConfigureUartOver(Pins)
    \/ ConfigureLogicOver(Pins, {0}, FALSE)
    \/ EnableDualModeOver({TRUE})
    \/ EnableUartMonitoringOp
    \/ StartCaptureOp(FALSE)
    \/ ProcessOver({TRUE}, {OkEnv}, FALSE)

SpecDualPins == Init /\ [][NextDualPins]_vars

\* The analyzer apart from dualModeActive and the serial log.
C33_Rest(s) == [s EXCEPT !.dualModeActive = FALSE, !.serialLogBuffer = <<>>]

\* C33: enableDualMode(true) called while the RX pin differs from the capture
\* pin leaves dualModeActive false, changes nothing else but the serial log,
\* and appends one log entry that names both pins.
C33_DualModeFailsClosed ==
    [][(last'.op = "enableDualMode" /\ rxPin # gpioPin)
       => /\ ~dualModeActive'
          /\ C33_Rest(Cur') = C33_Rest(Cur)
          /\ last'.tr.log = <<PinConflictMessage(rxPin, gpioPin)>>
          /\ serialLogBuffer'[Len(serialLogBuffer')] = last'.tr.log[1]]_vars

\* The call found dual mode active during a capture with the RX pin on 7 and
\* the capture pin on 1.
C33_Witness ==
    /\ last.op = "enableDualMode" /\ ~dualModeActive /\ capturing
    /\ rxPin = DEFAULT_RX_PIN /\ gpioPin = CHANNEL_0_PIN
    /\ last.tr.log = <<"Dual-mode failed: Pin conflict - UART on GPIO7, Logic on GPIO1">>

\* C37: whenever dual mode is active the RX pin is the capture pin.
C37_DualModeOnSharedPin == dualModeActive => rxPin = gpioPin

\* The capture and its storage: the flag, the ring, the flash counters, the
\* staging position, the backing file and the streaming counter.
C34_Capture(s) ==
    <<s.capturing, s.writeIndex, s.readIndex, s.buffer, s.flashSamplesWritten,
      s.flashWritePosition, s.bufferPosition, s.flashFileSize, s.flashFileExists,
      s.flashFileFirst, s.streamingActive, s.streamingCount>>

\* C34: a dual-mode tick that records the sample which fills the buffer
\* leaves the capture and its storage as the normal-path tick does on the
\* same state and sample: capturing false, the stop logged and, in FLASH
\* mode, the staged samples flushed to the backing file.
C34_DualStopsAsNormal ==
    [][(/\ last'.op = "process" /\ Len(last'.tr.add) = 1
        /\ dualModeActive /\ uartMonitoringEnabled /\ capturing /\ triggerArmed
        /\ isBufferFull(Cur'))
       => LET normal == process([Cur EXCEPT !.dualModeActive = FALSE], TRUE,
                                last'.tr.add[1], last'.tr.smp[1].timestamp, OkEnv)
          IN /\ C34_Capture(Cur') = C34_Capture(normal)
             /\ ~capturing'
             /\ \E i \in 1..Len(last'.tr.log) : last'.tr.log[i] \in C2_FullMessages
             /\ bufferMode = "BUFFER_FLASH" => bufferPosition' = 0]_vars

\* ----- the loop task and the request handlers -------------------------------
NextTasks ==
    \/ SetupOver({OkEnv}, {CHANNEL_0_PIN}, {DEFAULT_RX_PIN}, {0})
    \/ SetBufferModeOver({"BUFFER_RAM", "BUFFER_FLASH"}, {OkEnv})
    \/ StartCaptureOp(FALSE)
    \/ StopCaptureOver({OkEnv})
    \/ ClearBufferOp
    \/ ProcessEntryOver({OkEnv})
    \/ ProcessSamplingOver(BOOLEAN, {OkEnv})
    \/ StopCaptureInTickOver({OkEnv})

SpecTasks == Init /\ [][NextTasks]_vars

\* C35: handlers and ticks are serial, so the tick that follows a stopCapture
\* call finds capturing false: it records no sample and stages none.
C35_NoSampleAfterStop ==
    [][(last.op = "stopCapture" /\ last'.op = "process")
       => /\ last'.tr.add = <<>> /\ last'.tr.stage = <<>>
          /\ writeIndex' = writeIndex
          /\ flashSamplesWritten' = flashSamplesWritten
          /\ bufferPosition' = bufferPosition]_vars

\* ----- a capture left to its ticks ---------------------------------------------
\* The storage is configured between captures; during a capture only
\* process() runs, and it keeps being called with the interval elapsed.
NextUnattended ==
    \/ SetupOver({OkEnv, NoFlashEnv}, {CHANNEL_0_PIN}, {DEFAULT_RX_PIN}, {0, 1})
    \/ ~capturing /\ SetBufferModeOver({"BUFFER_RAM", "BUFFER_FLASH", "BUFFER_STREAMING"},
                                       {OkEnv, NoFlashEnv})
    \/ ~capturing /\ EnableStreamingModeOver({FALSE}, {OkEnv})
    \/ ~capturing /\ StartCaptureOp(FALSE)
    \/ SampleTickOver(BOOLEAN, {OkEnv})

SpecUnattended ==
    Init /\ [][NextUnattended]_vars /\ WF_vars(SampleTickOver(BOOLEAN, {OkEnv}))

\* C36: in RAM, FLASH and STREAMING mode a capture whose trigger has armed
\* ends by itself when process() keeps being called with the interval
\* elapsed (runs that reach the end of the followed counters are left out).
C36_CaptureEndsByItself ==
    (/\ capturing /\ triggerArmed
     /\ bufferMode \in {"BUFFER_RAM", "BUFFER_FLASH", "BUFFER_STREAMING"})
    ~> (~capturing \/ streamingCount >= MaxCount)

\* ----- the half-duplex command queue under repeated ticks -----------------------
\* The UART is configured for half-duplex and monitoring is enabled once;
\* from then on commands are sent, time passes and process() keeps being
\* called.
NextSendQueue ==
    \/ SetupOver({OkEnv}, {CHANNEL_0_PIN}, {DEFAULT_RX_PIN}, {0})
    \/ ~uartMonitoringEnabled /\ ConfigureUartModeOver({DEFAULT_RX_PIN}, {"UART_HALF_DUPLEX"})
    \/ (~uartMonitoringEnabled /\ duplexMode = "UART_HALF_DUPLEX") /\ EnableUartMonitoringOp
    \/ uartMonitoringEnabled /\ SendHalfDuplexCommandOver({<<"A">>, <<"B">>})
    \/ ClockOver({HALF_DUPLEX_TX_TIMEOUT + 1})
    \/ SampleTickOver({FALSE}, {OkEnv})

SpecSendQueue ==
    Init /\ [][NextSendQueue]_vars /\ WF_vars(SampleTickOver({FALSE}, {OkEnv}))

\* sendHalfDuplexCommand(command) has just returned true.
C38_Accepted(command) ==
    /\ last.op = "sendHalfDuplexCommand" /\ last.tr.ret = TRUE
    /\ halfDuplexTxQueue = WithLineEnding(command)
    /\ uartMonitoringEnabled

\* A tick has printed the command to the UART and logged it as one TX entry.
C38_Transmitted(command) ==
    /\ last.op = "process" /\ last.tr.tx = <<WithLineEnding(command)>>
    /\ Len(last.tr.uart) = 1 /\ last.tr.uart[1].direction = "TX"
    /\ last.tr.uart[1].data = WithLineEnding(command)

\* C38: in half-duplex mode with monitoring enabled and process() called
\* again and again, a command for which sendHalfDuplexCommand returned true
\* is eventually transmitted and logged as a TX entry.
C38_AcceptedIsTransmitted ==
    /\ C38_Accepted(<<"A">>) ~> C38_Transmitted(<<"A">>)
    /\ C38_Accepted(<<"B">>) ~> C38_Transmitted(<<"B">>)

\* ----- flash sample accounting ---------------------------------------------------
\* The file system mounts, malloc succeeds and the backing file opens.
NextAccounting ==
    \/ SetupOver({OkEnv}, {CHANNEL_0_PIN}, {DEFAULT_RX_PIN}, {0})
    \/ StartCaptureOp(FALSE)
    \/ ProcessOver(BOOLEAN, {OkEnv}, FALSE)
    \/ StopCaptureOver({OkEnv})
    \/ ClearBufferOp
    \/ ClearFlashLogicDataOp
    \/ EnableFlashBufferingOver({"BUFFER_FLASH"}, {FLASH_BUFFER_SIZE, MAX_FLASH_BUFFER_SIZE}, {OkEnv})
    \/ EnableStreamingModeOver(BOOLEAN, {OkEnv})

SpecAccounting == Init /\ [][NextAccounting]_vars

\* C39: in FLASH mode every counted sample is in the file or staged:
\* flashWritePosition + bufferPosition = flashSamplesWritten * sizeof(Sample).
C39_FlashAccounting ==
    bufferMode = "BUFFER_FLASH"
    => flashWritePosition + bufferPosition = flashSamplesWritten * SIZEOF_SAMPLE

\* ----- logging when the file system or the log file is not available ---------
NextFallback ==
    \/ SetupFormatOver({OkEnv}, {CHANNEL_0_PIN}, {DEFAULT_RX_PIN}, {0}, BOOLEAN)
    \/ SetUartBufferSizeOver({2})
    \/ EnableFlashStorageOver({TRUE}, AppendEnvs)
    \/ AddUartEntryOver({<<"A">>, <<"B">>}, {TRUE}, AppendEnvs)

SpecFallback == Init /\ [][NextFallback]_vars

\* The messages of a mount whose format retry failed, in enableFlashStorage
\* and in initFlashStorage.
C32_FormatFailed ==
    {"Flash storage format failed - using RAM",
     "Flash storage initialization failed - format error"}

\* C32: a call in which the format retry has failed leaves the storage flag
\* at RAM; an addUartEntry call under the RAM flag leaves its entry as the
\* newest one in memory and the log file alone; an addUartEntry call under
\* the Flash flag either appends its entry to the log file or, when the file
\* does not open, appends it to the entries in memory.
C32_FallbackToMemory ==
    [][/\ (\E i \in 1..Len(last'.tr.log) : last'.tr.log[i] \in C32_FormatFailed)
          => ~useFlashStorage'
       /\ last'.op = "addUartEntry"
          => LET e == last'.tr.uart[1]
                 pushed == Append(uartLogBuffer, e)
             IN IF ~useFlashStorage
                THEN /\ uartLogFile' = uartLogFile
                     /\ ~useFlashStorage'
                     /\ \E k \in 0..Len(uartLogBuffer) :
                            uartLogBuffer' = SubSeq(pushed, k + 1, Len(pushed))
                ELSE \/ uartLogFile' = Append(uartLogFile, e) /\ uartLogBuffer' = uartLogBuffer
                     \/ uartLogFile' = uartLogFile /\ uartLogBuffer' = pushed]_vars

\* Under the Flash flag the log file did not open and the entry went to memory,
\* next to an earlier entry of the same kind.
C32_Witness ==
    /\ last.op = "addUartEntry" /\ useFlashStorage
    /\ uartLogFile = <<>>
    /\ Len(uartLogBuffer) = 2
    /\ uartLogBuffer[2] = last.tr.uart[1]
    /\ uartLogBuffer[1].data # uartLogBuffer[2].data

\* ----- the order of the UART log in memory ------------------------------------
NextUartOrder ==
    \/ SetupOver({OkEnv}, {CHANNEL_0_PIN}, {DEFAULT_RX_PIN}, {0})
    \/ SetUartBufferSizeOver({1, 2})
    \/ EnableFlashStorageOver(BOOLEAN, {OkEnv})
    \/ AddUartEntryStoredOver({<<"A">>}, {TRUE}, {OkEnv})
    \/ CompactUartLogsOp
    \/ ClockOver({1})

SpecUartOrder == Init /\ [][NextUartOrder]_vars

\* An entry in memory is the stored entry, as it was given or as it reads
\* back from the log file.
C31_Same(kept, given) == kept = given \/ kept = ReadLine(given)

\* C31: without clearUartLogs, the entries in memory are the most recent of
\* the entries given to addUartEntry, in the order they were given.
C31_MemoryIsRecentSuffix ==
    /\ Len(uartLogBuffer) <= Len(sess.stored)
    /\ \A i \in 1..Len(uartLogBuffer) :
           C31_Same(uartLogBuffer[i],
                    sess.stored[Len(sess.stored) - Len(uartLogBuffer) + i])

\* ----- Hybrid compression: the samples behind the records and the run -------
\* Compressed mode with the Hybrid encoder is entered once; after that the
\* analyzer takes sampling ticks and the calls that touch the encoder.
NextHybridCount ==
    \/ SetupOver({OkEnv}, {CHANNEL_0_PIN}, {CHANNEL_0_PIN}, {0})
    \/ (bufferMode # "BUFFER_COMPRESSED"
          /\ \E env \in {OkEnv} :
                CallCounted("setBufferMode", setBufferMode(Cur, "BUFFER_COMPRESSED", env)))
    \/ CallCounted("startCapture", startCapture(Cur))
    \/ (sess.counted < MaxFed
          /\ \E elapsed \in BOOLEAN, currentState \in BOOLEAN, timestamp \in Times :
                CallCounted("process", process(Cur, elapsed, currentState, timestamp, OkEnv)))
    \/ CallCounted("stopCapture", stopCapture(Cur, OkEnv))
    \/ CallCounted("enableCompression", enableCompression(Cur, "COMPRESS_HYBRID"))
    \/ CallCounted("clearCompressedBuffer", clearCompressedBuffer(Cur))
    \/ CallCounted("clearFlashLogicData", clearFlashLogicData(Cur))

SpecHybridCount == Init /\ [][NextHybridCount]_vars

\* The sum of the counts of the RLE records of a record buffer.
RECURSIVE C40_RleCount(_)
C40_RleCount(records) ==
    IF records = <<>> THEN 0
    ELSE (IF records[1].type = "COMPRESS_RLE" THEN records[1].count ELSE 0)
         + C40_RleCount(Tail(records))

\* C40: under Hybrid compression, while the record buffer is below its
\* capacity, the counts of the RLE records in the buffer plus the pending run
\* counter add up to the number of samples fed to compressSample since the
\* record buffer was last emptied.
C40_HybridCountsEverySample ==
    (/\ pc = "running" /\ bufferMode = "BUFFER_COMPRESSED"
     /\ compression = "COMPRESS_HYBRID" /\ compressedBuffer
     /\ compressedCount(Cur) < COMPRESSED_CAPACITY)
    => C40_RleCount(compressed) + runLength = sess.counted

====
